---------------------------- MODULE Spec2Model ----------------------------
(***************************************************************************)
(* Turn engine of the tactical combat game (src/engine.py) together with   *)
(* the parts of the host (src/game.py) that call into it: loading a map,   *)
(* the End-round button, the player's action entry point and the per-frame *)
(* update that drives NPC turns.                                           *)
(*                                                                         *)
(* The engine object is one record (`World`); every method of GameEngine   *)
(* is an operator from a world to the world it leaves behind, so that a    *)
(* method calling another (update -> run_npc_behavior -> next_turn) is one *)
(* atomic step, exactly as in the single-threaded program.                 *)
(***************************************************************************)
EXTENDS Integers, Sequences, FiniteSets, TLC

VARIABLES
    entities,            \* GameEngine.entities: sequence of entity records
    player,              \* GameEngine.player: index into entities, 0 = None
    turn_order,          \* GameEngine.turn_order: sequence of entity indices
    current_turn_index,  \* GameEngine.current_turn_index (0-based)
    game_state,          \* GameEngine.game_state (the phase)
    game_log,            \* GameEngine.game_log (message kinds, oldest first)
    host_game_state,     \* Game.game_state, the host's copy of the phase
    initialized,         \* Game._initialized
    last_call,           \* last engine entry point called and what it returned
    catalog,             \* abilities.ABILITIES_REGISTRY and a running load_abilities
    npc_tasks,           \* the calls of run_npc_turn that have not returned yet
    pending_events       \* host input not yet fetched by the main loop

vars == <<entities, player, turn_order, current_turn_index, game_state,
          game_log, host_game_state, initialized, last_call,
          catalog, npc_tasks, pending_events>>

-----------------------------------------------------------------------------
(* Bounds of the exploration *)

\* A match is explored while its log holds fewer than MaxLogged messages.
MaxLogged == 9

-----------------------------------------------------------------------------
(* Program constants *)

MAX_CLIMB_HEIGHT_DIFF == 1
MAX_MAP_HEIGHT == 5
MAX_LOG_MESSAGES == 20

\* Python's None: 0 where an entity index is expected, NoAbility where an
\* Ability object is.
None == 0
NoAbility == [id_name |-> "None"]

-----------------------------------------------------------------------------
(* Static data handed to the engine: terrain, ability and entity records *)

\* GameMap.tiles / GameMap.heightmap, indexed [y][x] as in the code (1-based
\* sequences here, 0-based coordinates in every operator below).
Tiles == << <<".", ".", ".">>,
            <<".", "#", ".">>,
            <<".", ".", ".">> >>

Heightmap == << <<0, 0, 0>>,
                <<0, 1, 1>>,
                <<5, 6, 0>> >>

\* The ability registry (abilities.ABILITIES_REGISTRY), keyed by ability id.
ABILITIES_REGISTRY ==
    [ move  |-> [id_name |-> "move",  name |-> "Move",  ap_cost |-> 1, range |-> 1, damage_amount |-> 0,
                 target_type |-> "TILE",  effect_radius |-> 0],
      shot  |-> [id_name |-> "shot",  name |-> "Shot",  ap_cost |-> 1, range |-> 2, damage_amount |-> 2,
                 target_type |-> "ENEMY", effect_radius |-> 0],
      bite  |-> [id_name |-> "bite",  name |-> "Bite",  ap_cost |-> 1, range |-> 1, damage_amount |-> 1,
                 target_type |-> "ENEMY", effect_radius |-> 0],
      brace |-> [id_name |-> "brace", name |-> "Brace", ap_cost |-> 1, range |-> 0, damage_amount |-> 0,
                 target_type |-> "SELF",  effect_radius |-> 0],
      flare |-> [id_name |-> "flare", name |-> "Flare", ap_cost |-> 1, range |-> 1, damage_amount |-> 0,
                 target_type |-> "TILE",  effect_radius |-> 0] ]

\* Entity definition files (data_manager.load_entity_data), keyed by id.
EntityData ==
    [ player_char |-> [hp |-> 2, ap |-> 2, abilities |-> <<"move", "shot", "brace", "flare">>,
                       behavior |-> "player_controlled"],
      goblin      |-> [hp |-> 1, ap |-> 2, abilities |-> <<"move", "bite">>,
                       behavior |-> "move_towards_player"],
      rat         |-> [hp |-> 1, ap |-> 1, abilities |-> <<"move">>,
                       behavior |-> "run_away_from_player"] ]

\* The entities_on_map lists of the maps that can be loaded.  "ghost" has no
\* definition file; one map places a rat on the "#" tile, one places two
\* player characters, of which the first becomes the player.
Placement(id, x, y) == [id |-> id, x |-> x, y |-> y]

MapEntityLists ==
    { << Placement("player_char", 0, 0), Placement("goblin", 2, 0), Placement("goblin", 0, 1) >>,
      << Placement("player_char", 0, 0), Placement("rat", 1, 0) >>,
      << Placement("goblin", 1, 0), Placement("player_char", 0, 0), Placement("ghost", 2, 0) >>,
      << Placement("player_char", 2, 0) >>,
      << Placement("goblin", 0, 0), Placement("rat", 2, 0) >>,
      << Placement("player_char", 0, 0), Placement("rat", 1, 1) >>,
      << Placement("ghost", 0, 0) >>,
      << Placement("player_char", 0, 0), Placement("player_char", 1, 0), Placement("rat", 2, 0) >>,
      << >> }

-----------------------------------------------------------------------------
(* utils.py *)

Abs(n) == IF n < 0 THEN -n ELSE n

manhattan_distance(p1, p2) == Abs(p1[1] - p2[1]) + Abs(p1[2] - p2[2])

-----------------------------------------------------------------------------
(* GameMap *)

MapWidth == Len(Tiles[1])
MapHeight == Len(Tiles)

is_valid(x, y) == 0 <= x /\ x < MapWidth /\ 0 <= y /\ y < MapHeight

\* float('inf') outside the grid: larger than every height that is compared.
Infinity == 1000000
get_height(x, y) == IF is_valid(x, y) THEN Heightmap[y + 1][x + 1] ELSE Infinity

is_walkable(x, y) == IF ~is_valid(x, y) THEN FALSE ELSE Tiles[y + 1][x + 1] # "#"

GridTiles == { <<x, y>> : x \in 0..(MapWidth - 1), y \in 0..(MapHeight - 1) }

-----------------------------------------------------------------------------
(* abilities.py: registry lookup *)

get_ability(ability_id_name) ==
    IF ability_id_name \in DOMAIN ABILITIES_REGISTRY
    THEN ABILITIES_REGISTRY[ability_id_name] ELSE NoAbility

-----------------------------------------------------------------------------
(* Entity *)

\* The one element of a set {F(value) : value \in {x}}: F applied to the value
\* of x, x being computed once, as a statement's result is in the code.
Once(results) == CHOOSE result \in results : TRUE


\* The constructor's loop over ability names: names missing from the registry
\* are dropped, the others resolved in order.
RECURSIVE ResolveAbilities(_)
ResolveAbilities(names) ==
    IF names = << >> THEN << >>
    ELSE LET ability_obj == get_ability(Head(names))
         IN  IF ability_obj # NoAbility
             THEN <<ability_obj>> \o ResolveAbilities(Tail(names))
             ELSE ResolveAbilities(Tail(names))

Entity(x, y, hp, max_hp, ap, max_ap, abilities, behavior, entity_id) ==
    [ x |-> x, y |-> y, hp |-> hp, max_hp |-> max_hp, ap |-> ap, max_ap |-> max_ap,
      abilities |-> ResolveAbilities(abilities), behavior |-> behavior,
      entity_id |-> entity_id, is_alive |-> TRUE ]

\* First ability of the entity with that display name, or None.
RECURSIVE FirstNamed(_, _)
FirstNamed(abilities, ability_name) ==
    IF abilities = << >> THEN NoAbility
    ELSE IF Head(abilities).name = ability_name THEN Head(abilities)
    ELSE FirstNamed(Tail(abilities), ability_name)

get_ability_by_name(e, ability_name) == FirstNamed(e.abilities, ability_name)

\* Entity.move: [ok, e] - the boolean returned and the entity afterwards.
\* Entity.move without the test against MAX_MAP_HEIGHT.
move_without_height_limit(e, dx, dy) ==
    LET new_x == e.x + dx
        new_y == e.y + dy
        height_diff == get_height(new_x, new_y) - get_height(e.x, e.y)
    IN  IF ~is_walkable(new_x, new_y) THEN [ok |-> FALSE, e |-> e]
        ELSE IF height_diff > MAX_CLIMB_HEIGHT_DIFF THEN [ok |-> FALSE, e |-> e]
        ELSE [ok |-> TRUE, e |-> [e EXCEPT !.x = new_x, !.y = new_y]]

move(e, dx, dy) ==
    LET new_x == e.x + dx
        new_y == e.y + dy
        current_height == get_height(e.x, e.y)
        target_height == get_height(new_x, new_y)
        height_diff == target_height - current_height
    IN  IF ~is_walkable(new_x, new_y) THEN [ok |-> FALSE, e |-> e]
        ELSE IF target_height > MAX_MAP_HEIGHT THEN [ok |-> FALSE, e |-> e]
        ELSE IF height_diff > MAX_CLIMB_HEIGHT_DIFF THEN [ok |-> FALSE, e |-> e]
        ELSE [ok |-> TRUE, e |-> [e EXCEPT !.x = new_x, !.y = new_y]]

\* Entity.take_damage without the clamp of HP at 0.
take_damage_unclamped(e, amount) ==
    IF ~e.is_alive THEN [defeated |-> FALSE, e |-> e]
    ELSE IF e.hp - amount <= 0
         THEN [defeated |-> TRUE, e |-> [e EXCEPT !.hp = e.hp - amount, !.is_alive = FALSE]]
         ELSE [defeated |-> FALSE, e |-> [e EXCEPT !.hp = e.hp - amount]]

\* Entity.take_damage without the test of is_alive.
take_damage_hitting_the_dead(e, amount) ==
    IF e.hp - amount <= 0
    THEN [defeated |-> TRUE, e |-> [e EXCEPT !.hp = 0, !.is_alive = FALSE]]
    ELSE [defeated |-> FALSE, e |-> [e EXCEPT !.hp = e.hp - amount, !.is_alive = TRUE]]

\* Entity.take_damage: [defeated, e].
take_damage(e, amount) ==
    IF ~e.is_alive THEN [defeated |-> FALSE, e |-> e]
    ELSE IF e.hp - amount <= 0
         THEN [defeated |-> TRUE, e |-> [e EXCEPT !.hp = 0, !.is_alive = FALSE]]
         ELSE [defeated |-> FALSE, e |-> [e EXCEPT !.hp = e.hp - amount]]

\* Entity.attack of entity `self` on entity `target` (indices into ents; the two
\* may be the same object): [ok, ents, msg].
attack(ents, self, target, ability) ==
    IF ~ents[self].is_alive
    THEN [ok |-> FALSE, ents |-> ents, msg |-> "attacker_defeated"]
    ELSE IF ability = NoAbility
    THEN [ok |-> FALSE, ents |-> ents, msg |-> "no_ability"]
    ELSE IF ability.target_type \notin {"ENEMY", "ANY_ENTITY"}
    THEN [ok |-> FALSE, ents |-> ents, msg |-> "cannot_target_entities"]
    ELSE IF ents[self].ap < ability.ap_cost
    THEN [ok |-> FALSE, ents |-> ents, msg |-> "not_enough_ap"]
    ELSE IF manhattan_distance(<<ents[self].x, ents[self].y>>,
                               <<ents[target].x, ents[target].y>>) > ability.range
    THEN [ok |-> FALSE, ents |-> ents, msg |-> "out_of_range"]
    ELSE IF ~ents[target].is_alive
    THEN [ok |-> FALSE, ents |-> ents, msg |-> "already_defeated"]
    ELSE LET paid == [ents EXCEPT ![self].ap = ents[self].ap - ability.ap_cost]
             hit == take_damage(paid[target], ability.damage_amount)
         IN  [ok |-> TRUE, ents |-> [paid EXCEPT ![target] = hit.e], msg |-> "attack"]

regenerate_ap(e) == [e EXCEPT !.ap = e.max_ap]

-----------------------------------------------------------------------------
(* GameEngine: the engine object as a record, and its methods *)

\* GameEngine.__init__
NewEngine ==
    [ entities |-> << >>, player |-> None, turn_order |-> << >>,
      current_turn_index |-> 0, game_state |-> "initializing", game_log |-> << >> ]

\* add_log_message removing the newest message of a full log, not the oldest.
add_log_message_dropping_newest(w, message) ==
    LET appended == Append(w.game_log, message)
    IN  [w EXCEPT !.game_log = IF Len(appended) > MAX_LOG_MESSAGES
                               THEN SubSeq(appended, 1, Len(appended) - 1)
                               ELSE appended]

add_log_message(w, message) ==
    LET appended == Append(w.game_log, message)
    IN  [w EXCEPT !.game_log = IF Len(appended) > MAX_LOG_MESSAGES
                               THEN Tail(appended) ELSE appended]

get_current_turn_entity(w) ==
    IF w.turn_order = << >> \/ w.current_turn_index >= Len(w.turn_order)
    THEN None
    ELSE w.turn_order[w.current_turn_index + 1]

\* The test for live opponents that looks at the NPCs hunting the player only.
AnyEnemyAlive_hunters_only(w) ==
    \E i \in 1..Len(w.entities) :
        /\ i # w.player
        /\ w.entities[i].is_alive
        /\ w.entities[i].behavior = "move_towards_player"

\* any(e for e in self.entities if e != self.player and e.is_alive
\*     and e.behavior != "player_controlled")
AnyEnemyAlive(w) ==
    \E i \in 1..Len(w.entities) :
        /\ i # w.player
        /\ w.entities[i].is_alive
        /\ w.entities[i].behavior # "player_controlled"

\* range(n) as 1-based indices: the iteration order of a list of n items.
Indices(n) == [i \in 1..n |-> i]

\* get_entities_at returning the entities on the tile dead or alive.
get_entities_at_dead_or_alive(w, x, y) ==
    LET Here(i) == w.entities[i].x = x /\ w.entities[i].y = y
    IN  SelectSeq(Indices(Len(w.entities)), Here)

get_entities_at(w, x, y) ==
    LET Here(i) == w.entities[i].x = x /\ w.entities[i].y = y /\ w.entities[i].is_alive
    IN  SelectSeq(Indices(Len(w.entities)), Here)

PlayerAlive(w) == w.player # None /\ w.entities[w.player].is_alive

\* _setup_turn_order without moving the player to the front.
setup_turn_order_as_loaded(w) ==
    LET Alive(i) == w.entities[i].is_alive
        alive == SelectSeq(Indices(Len(w.entities)), Alive)
        NotPlayer(i) == i # w.player
        order == alive
        w1 == [w EXCEPT !.turn_order = order, !.current_turn_index = 0]
    IN  IF order # << >>
        THEN LET current_entity == get_current_turn_entity(w1)
             IN  IF current_entity # None
                 THEN [w1 EXCEPT !.entities[current_entity] = regenerate_ap(@)]
                 ELSE w1
        ELSE IF w1.player # None /\ ~w1.entities[w1.player].is_alive
             THEN [w1 EXCEPT !.game_state = "game_over_player_lose"]
        ELSE IF w1.player = None /\ w1.entities = << >>
             THEN [w1 EXCEPT !.game_state = "error_no_entities_loaded"]
        ELSE IF PlayerAlive(w1) /\ ~AnyEnemyAlive(w1)
             THEN [w1 EXCEPT !.game_state = "game_over_player_win"]
        ELSE w1

setup_turn_order(w) ==
    LET Alive(i) == w.entities[i].is_alive
        alive == SelectSeq(Indices(Len(w.entities)), Alive)
        NotPlayer(i) == i # w.player
        order == IF PlayerAlive(w)
                 THEN <<w.player>> \o SelectSeq(alive, NotPlayer)
                 ELSE alive
        w1 == [w EXCEPT !.turn_order = order, !.current_turn_index = 0]
    IN  IF order # << >>
        THEN LET current_entity == get_current_turn_entity(w1)
             IN  IF current_entity # None
                 THEN [w1 EXCEPT !.entities[current_entity] = regenerate_ap(@)]
                 ELSE w1
        ELSE IF w1.player # None /\ ~w1.entities[w1.player].is_alive
             THEN [w1 EXCEPT !.game_state = "game_over_player_lose"]
        ELSE IF w1.player = None /\ w1.entities = << >>
             THEN [w1 EXCEPT !.game_state = "error_no_entities_loaded"]
        ELSE IF PlayerAlive(w1) /\ ~AnyEnemyAlive(w1)
             THEN [w1 EXCEPT !.game_state = "game_over_player_win"]
        ELSE w1

\* The loop of initialize_entities_from_map_data over the placements:
\* [entities, player] after the placements in `info` were processed.
RECURSIVE LoadPlacements(_, _, _)
LoadPlacements(info, ents, plr) ==
    IF info = << >> THEN [entities |-> ents, player |-> plr]
    ELSE LET entity_placement_info == Head(info)
             entity_id == entity_placement_info.id
         IN  IF entity_id \in DOMAIN EntityData
             THEN LET data == EntityData[entity_id]
                      entity == Entity(entity_placement_info.x, entity_placement_info.y,
                                       data.hp, data.hp, data.ap, data.ap,
                                       data.abilities, data.behavior, entity_id)
                      ents1 == Append(ents, entity)
                      plr1 == IF data.behavior = "player_controlled" \/ entity_id = "player_char"
                              THEN (IF plr # None THEN plr ELSE Len(ents1))
                              ELSE plr
                  IN  LoadPlacements(Tail(info), ents1, plr1)
             ELSE LoadPlacements(Tail(info), ents, plr)

initialize_entities_from_map_data(w, entities_on_map_info) ==
    LET w0 == [w EXCEPT !.entities = << >>, !.player = None]
    IN  IF entities_on_map_info = << >>
        THEN [w0 EXCEPT !.game_state = "error_no_entities_in_map"]
        ELSE LET loaded == LoadPlacements(entities_on_map_info, << >>, None)
                 w1 == [w0 EXCEPT !.entities = loaded.entities, !.player = loaded.player]
             IN  IF w1.player = None /\ w1.entities # << >>
                 THEN setup_turn_order([w1 EXCEPT !.player = 1])
                 ELSE IF w1.entities = << >>
                 THEN [w1 EXCEPT !.game_state = "error_no_entities_loaded"]
                 ELSE setup_turn_order(w1)

\* BeginTurn without the regeneration of AP.
BeginTurn_without_regen(w, current_entity) ==
    LET w1 == w
    IN  IF current_entity = w1.player
        THEN add_log_message([w1 EXCEPT !.game_state = "player_turn"], "turn")
        ELSE add_log_message([w1 EXCEPT !.game_state = "npc_turn"], "turn")

\* The branch shared by start_game and next_turn: the turn of current_entity
\* begins.
BeginTurn(w, current_entity) ==
    LET w1 == [w EXCEPT !.entities[current_entity] = regenerate_ap(@)]
    IN  IF current_entity = w1.player
        THEN add_log_message([w1 EXCEPT !.game_state = "player_turn"], "turn")
        ELSE add_log_message([w1 EXCEPT !.game_state = "npc_turn"], "turn")

start_game(w) ==
    IF w.entities = << >>
    THEN [w EXCEPT !.game_state = "error_no_entities_loaded"]
    ELSE LET w1 == setup_turn_order(w)
         IN  IF w1.turn_order = << >>
             THEN IF w1.player # None /\ ~w1.entities[w1.player].is_alive
                  THEN [w1 EXCEPT !.game_state = "game_over_player_lose"]
                  ELSE IF PlayerAlive(w1) /\ ~AnyEnemyAlive(w1)
                  THEN [w1 EXCEPT !.game_state = "game_over_player_win"]
                  ELSE [w1 EXCEPT !.game_state = "error_engine_start"]
             ELSE LET first_entity == get_current_turn_entity(w1)
                  IN  IF first_entity # None
                      THEN BeginTurn(w1, first_entity)
                      ELSE add_log_message(w1, "start_no_entity")

\* next_turn without the filter that drops dead entities from the turn order.
next_turn_keeping_dead(w) ==
    LET w1 == w
    IN  IF w1.turn_order = << >>
        THEN LET w2 == add_log_message(w1, "no_entities_left")
             IN  IF w2.player # None /\ ~w2.entities[w2.player].is_alive
                 THEN [ (IF w2.game_state # "game_over_player_lose"
                         THEN add_log_message(w2, "defeat") ELSE w2)
                        EXCEPT !.game_state = "game_over_player_lose" ]
                 ELSE IF PlayerAlive(w2) /\ ~AnyEnemyAlive(w2)
                 THEN [ (IF w2.game_state # "game_over_player_win"
                         THEN add_log_message(w2, "victory") ELSE w2)
                        EXCEPT !.game_state = "game_over_player_win" ]
                 ELSE [w2 EXCEPT !.game_state = "game_over_unknown"]
        ELSE LET w2 == [w1 EXCEPT !.current_turn_index =
                                      (w1.current_turn_index + 1) % Len(w1.turn_order)]
                 current_entity == get_current_turn_entity(w2)
             IN  IF current_entity # None
                 THEN BeginTurn(w2, current_entity)
                 ELSE add_log_message(w2, "next_turn_no_entity")

next_turn(w) ==
    LET StillAlive(i) == w.entities[i].is_alive
        w1 == [w EXCEPT !.turn_order = SelectSeq(w.turn_order, StillAlive)]
    IN  IF w1.turn_order = << >>
        THEN LET w2 == add_log_message(w1, "no_entities_left")
             IN  IF w2.player # None /\ ~w2.entities[w2.player].is_alive
                 THEN [ (IF w2.game_state # "game_over_player_lose"
                         THEN add_log_message(w2, "defeat") ELSE w2)
                        EXCEPT !.game_state = "game_over_player_lose" ]
                 ELSE IF PlayerAlive(w2) /\ ~AnyEnemyAlive(w2)
                 THEN [ (IF w2.game_state # "game_over_player_win"
                         THEN add_log_message(w2, "victory") ELSE w2)
                        EXCEPT !.game_state = "game_over_player_win" ]
                 ELSE [w2 EXCEPT !.game_state = "game_over_unknown"]
        ELSE LET w2 == [w1 EXCEPT !.current_turn_index =
                                      (w1.current_turn_index + 1) % Len(w1.turn_order)]
                 current_entity == get_current_turn_entity(w2)
             IN  IF current_entity # None
                 THEN BeginTurn(w2, current_entity)
                 ELSE add_log_message(w2, "next_turn_no_entity")

\* The NPC's first ENEMY ability that is affordable and in range of the
\* player (the loop at the head of run_npc_behavior), or NoAbility.
RECURSIVE FirstAttackAbility(_, _, _)
FirstAttackAbility(abilities, npc_e, player_e) ==
    IF abilities = << >> THEN NoAbility
    ELSE LET ability == Head(abilities)
         IN  IF /\ ability.target_type = "ENEMY"
                /\ npc_e.ap >= ability.ap_cost
                /\ manhattan_distance(<<npc_e.x, npc_e.y>>, <<player_e.x, player_e.y>>)
                       <= ability.range
             THEN ability
             ELSE FirstAttackAbility(Tail(abilities), npc_e, player_e)

\* One step of an NPC along one axis: taken when the tile is free of live
\* entities and Entity.move accepts it; pays the move ability's AP cost.
NpcStep(w, npc, dx, dy, move_ability, message) ==
    LET e == w.entities[npc]
        stepped == move(e, dx, dy)
    IN  IF get_entities_at(w, e.x + dx, e.y + dy) = << >> /\ stepped.ok
        THEN [moved |-> TRUE,
              w |-> add_log_message(
                        [w EXCEPT !.entities[npc] =
                                      [stepped.e EXCEPT !.ap = @ - move_ability.ap_cost]],
                        message)]
        ELSE [moved |-> FALSE, w |-> w]

\* behavior == "move_towards_player"
MoveTowardsPlayer(w, npc, move_ability) ==
    LET e == w.entities[npc]
        p == w.entities[w.player]
        dx == IF e.x < p.x THEN 1 ELSE IF e.x > p.x THEN -1 ELSE 0
        dy == IF e.y < p.y THEN 1 ELSE IF e.y > p.y THEN -1 ELSE 0
        in_x == IF dx # 0 THEN NpcStep(w, npc, dx, 0, move_ability, "npc_moved")
                ELSE [moved |-> FALSE, w |-> w]
    IN  IF in_x.moved THEN in_x.w
        ELSE IF dy # 0 /\ e.ap >= move_ability.ap_cost
        THEN NpcStep(w, npc, 0, dy, move_ability, "npc_moved").w
        ELSE w

\* behavior == "run_away_from_player"
RunAwayFromPlayer(w, npc, move_ability) ==
    LET e == w.entities[npc]
        p == w.entities[w.player]
        dx == IF e.x < p.x THEN -1 ELSE IF e.x > p.x THEN 1
              ELSE IF is_walkable(e.x + 1, e.y) /\ get_entities_at(w, e.x + 1, e.y) = << >>
                   THEN 1 ELSE -1
        dy == IF e.y < p.y THEN -1 ELSE IF e.y > p.y THEN 1
              ELSE IF is_walkable(e.x, e.y + 1) /\ get_entities_at(w, e.x, e.y + 1) = << >>
                   THEN 1 ELSE -1
        in_x == IF dx # 0 THEN NpcStep(w, npc, dx, 0, move_ability, "npc_ran_away")
                ELSE [moved |-> FALSE, w |-> w]
    IN  IF in_x.moved THEN in_x.w
        ELSE IF dy # 0 /\ e.ap >= move_ability.ap_cost
        THEN NpcStep(w, npc, 0, dy, move_ability, "npc_ran_away").w
        ELSE w

\* The second half of run_npc_behavior ("if npc.ap > 0: ... try to move").
NpcMovePart(w, npc) ==
    LET e == w.entities[npc]
        p == w.entities[w.player]
        move_ability == get_ability_by_name(e, "Move")
        distance_to_player == manhattan_distance(<<e.x, e.y>>, <<p.x, p.y>>)
    IN  IF e.ap > 0 /\ move_ability # NoAbility /\ e.ap >= move_ability.ap_cost
        THEN IF e.behavior = "move_towards_player"
             THEN (IF distance_to_player > 1 THEN MoveTowardsPlayer(w, npc, move_ability) ELSE w)
             ELSE IF e.behavior = "run_away_from_player"
             THEN (IF distance_to_player < 8 THEN RunAwayFromPlayer(w, npc, move_ability) ELSE w)
             ELSE w
        ELSE w

\* The first half: the attack on the player and the defeat check after it.
NpcAttackPart(w, npc, attack_ability_to_use) ==
    LET hit == attack(w.entities, npc, w.player, attack_ability_to_use)
        w1 == add_log_message([w EXCEPT !.entities = hit.ents], hit.msg)
    IN  IF ~w1.entities[w1.player].is_alive /\ w1.game_state # "game_over_player_lose"
        THEN add_log_message([w1 EXCEPT !.game_state = "game_over_player_lose"], "defeat")
        ELSE w1

run_npc_behavior(w, npc) ==
    IF w.player = None \/ ~w.entities[w.player].is_alive THEN w
    ELSE IF w.entities[npc].ap = 0 \/ ~w.entities[npc].is_alive THEN w
    ELSE LET attack_ability_to_use ==
                 FirstAttackAbility(w.entities[npc].abilities, w.entities[npc],
                                    w.entities[w.player])
         IN  IF attack_ability_to_use # NoAbility
             THEN LET w1 == NpcAttackPart(w, npc, attack_ability_to_use)
                  IN  IF w1.entities[npc].ap = 0 \/ ~w1.entities[npc].is_alive
                      THEN w1
                      ELSE Once({NpcMovePart(attacked, npc) : attacked \in {w1}})
             ELSE NpcMovePart(w, npc)

\* The game-over check that closes update().
GameOverCheck(w) ==
    IF w.player # None /\ ~w.entities[w.player].is_alive
       /\ w.game_state # "game_over_player_lose"
    THEN [add_log_message(w, "defeat") EXCEPT !.game_state = "game_over_player_lose"]
    ELSE IF PlayerAlive(w) /\ ~AnyEnemyAlive(w) /\ w.game_state # "game_over_player_win"
    THEN [add_log_message(w, "victory") EXCEPT !.game_state = "game_over_player_win"]
    ELSE w

\* update leaving out the call of next_turn after the behaviour of the NPC.
update_without_next_turn(w) ==
    IF w.game_state \in {"game_over_player_win", "game_over_player_lose",
                         "error_no_entities_loaded", "critical_error_next_turn"}
    THEN w
    ELSE LET current_entity == get_current_turn_entity(w)
         IN  IF current_entity = None
             THEN next_turn(add_log_message(w, "update_no_current_entity"))
             ELSE IF ~w.entities[current_entity].is_alive
             THEN next_turn(add_log_message(w, "update_current_defeated"))
             ELSE IF w.game_state = "npc_turn"
             THEN IF current_entity # w.player
                  THEN Once({GameOverCheck(acted) :
                             acted \in {run_npc_behavior(w, current_entity)}})
                  ELSE GameOverCheck([w EXCEPT !.game_state = "player_turn"])
             ELSE GameOverCheck(w)

update(w) ==
    IF w.game_state \in {"game_over_player_win", "game_over_player_lose",
                         "error_no_entities_loaded", "critical_error_next_turn"}
    THEN w
    ELSE LET current_entity == get_current_turn_entity(w)
         IN  IF current_entity = None
             THEN next_turn(add_log_message(w, "update_no_current_entity"))
             ELSE IF ~w.entities[current_entity].is_alive
             THEN next_turn(add_log_message(w, "update_current_defeated"))
             ELSE IF w.game_state = "npc_turn"
             THEN IF current_entity # w.player
                  THEN Once({GameOverCheck(turned) : turned \in
                             {next_turn(acted) :
                                 acted \in {run_npc_behavior(w, current_entity)}}})
                  ELSE GameOverCheck([w EXCEPT !.game_state = "player_turn"])
             ELSE GameOverCheck(w)

\* end_player_turn that also refills the AP of the player.
end_player_turn_refilling(w) ==
    IF w.game_state = "player_turn"
    THEN next_turn(IF PlayerAlive(w)
                   THEN add_log_message([w EXCEPT !.entities[w.player] = regenerate_ap(@)],
                                        "ends_turn")
                   ELSE w)
    ELSE w

end_player_turn(w) ==
    IF w.game_state = "player_turn"
    THEN next_turn(IF PlayerAlive(w) THEN add_log_message(w, "ends_turn") ELSE w)
    ELSE w

Rejected(w, message) == [w |-> w, action_taken |-> FALSE, message |-> message]
Taken(w, message) == [w |-> w, action_taken |-> TRUE, message |-> message]

SpendPlayerAp(w, cost) == [w EXCEPT !.entities[w.player].ap = @ - cost]

\* action_type == "move"
PlayerMove(w, target_pos) ==
    LET p == w.entities[w.player]
        move_ability == get_ability_by_name(p, "Move")
        dx == target_pos[1] - p.x
        dy == target_pos[2] - p.y
        stepped == move(p, dx, dy)
    IN  IF move_ability = NoAbility THEN Rejected(w, "no_move_ability")
        ELSE IF p.ap >= move_ability.ap_cost
        THEN IF Abs(dx) + Abs(dy) = 1
             THEN IF stepped.ok
                  THEN Taken([w EXCEPT !.entities[w.player] =
                                           [stepped.e EXCEPT !.ap = @ - move_ability.ap_cost]],
                             "player_moved")
                  ELSE Rejected(w, "invalid_move_target")
             ELSE Rejected(w, "not_adjacent")
        ELSE Rejected(w, "not_enough_ap_to_move")

\* next((t for t in targets_at_pos if ...), None) for the ability's target type
PickTargetEntity(w, ability_to_use, targets_at_pos) ==
    LET NotPlayer(t) == t # w.player
        IsPlayer(t) == t = w.player
        candidates == IF ability_to_use.target_type = "ENEMY"
                      THEN SelectSeq(targets_at_pos, NotPlayer)
                      ELSE IF ability_to_use.target_type = "ALLY"
                      THEN SelectSeq(targets_at_pos, IsPlayer)
                      ELSE targets_at_pos
    IN  IF candidates = << >> THEN None ELSE Head(candidates)

\* CheckAfterPlayerAttack without the test for a win.
CheckAfterPlayerAttack_lose_only(w) ==
    IF ~w.entities[w.player].is_alive
    THEN [ (IF w.game_state # "game_over_player_lose"
            THEN add_log_message(w, "defeat") ELSE w)
           EXCEPT !.game_state = "game_over_player_lose" ]
    ELSE w

\* The win/lose check made right after a successful attack of the player.
CheckAfterPlayerAttack(w) ==
    IF ~AnyEnemyAlive(w)
    THEN [ (IF w.game_state # "game_over_player_win"
            THEN add_log_message(w, "victory") ELSE w)
           EXCEPT !.game_state = "game_over_player_win" ]
    ELSE IF ~w.entities[w.player].is_alive
    THEN [ (IF w.game_state # "game_over_player_lose"
            THEN add_log_message(w, "defeat") ELSE w)
           EXCEPT !.game_state = "game_over_player_lose" ]
    ELSE w

\* action_type == "ability"
PlayerAbility(w, target_pos, ability_to_use) ==
    LET p == w.entities[w.player]
    IN  IF ability_to_use = NoAbility THEN Rejected(w, "needs_target_and_ability")
        ELSE IF p.ap < ability_to_use.ap_cost THEN Rejected(w, "not_enough_ap")
        ELSE IF ability_to_use.target_type = "TILE"
        THEN IF ability_to_use.name = "Move"
             THEN Rejected(w, "move_is_not_an_ability_action")
             ELSE Taken(SpendPlayerAp(w, ability_to_use.ap_cost), "used_on_tile")
        ELSE IF ability_to_use.target_type \in {"ENEMY", "ALLY", "ANY_ENTITY"}
        THEN LET targets_at_pos == get_entities_at(w, target_pos[1], target_pos[2])
                 target_entity == PickTargetEntity(w, ability_to_use, targets_at_pos)
             IN  IF target_entity # None
                 THEN IF ability_to_use.damage_amount > 0
                      THEN LET hit == attack(w.entities, w.player, target_entity, ability_to_use)
                           IN  IF hit.ok
                               THEN Taken(CheckAfterPlayerAttack([w EXCEPT !.entities = hit.ents]),
                                          hit.msg)
                               ELSE Rejected(w, "")
                      ELSE Taken(SpendPlayerAp(w, ability_to_use.ap_cost), "used_on_entity")
                 ELSE Rejected(w, "no_valid_target")
        ELSE IF ability_to_use.target_type = "SELF"
        THEN Taken(SpendPlayerAp(w, ability_to_use.ap_cost), "used_on_self")
        ELSE Rejected(w, "unsupported_target_type")

\* handle_player_action without the automatic end of the turn at 0 AP.
handle_player_action_no_auto_end(w, action_type, target_pos, ability_to_use) ==
    IF w.player = None \/ get_current_turn_entity(w) # w.player
       \/ w.game_state # "player_turn"
    THEN [w |-> w, ok |-> FALSE, message |-> "not_players_turn"]
    ELSE IF ~w.entities[w.player].is_alive
    THEN [w |-> add_log_message(w, "player_defeated_cannot_act"),
          ok |-> FALSE, message |-> "player_defeated"]
    ELSE LET r == IF action_type = "move" THEN PlayerMove(w, target_pos)
                  ELSE IF action_type = "ability"
                  THEN PlayerAbility(w, target_pos, ability_to_use)
                  ELSE Rejected(w, "")
         IN  IF r.action_taken
             THEN LET w1 == add_log_message(r.w, r.message)
                      w2 == w1
                  IN  [w |-> w2, ok |-> TRUE, message |-> r.message]
             ELSE [w |-> r.w, ok |-> FALSE, message |-> r.message]

\* handle_player_action without the test of the phase.
handle_player_action_any_phase(w, action_type, target_pos, ability_to_use) ==
    IF w.player = None \/ get_current_turn_entity(w) # w.player
    THEN [w |-> w, ok |-> FALSE, message |-> "not_players_turn"]
    ELSE IF ~w.entities[w.player].is_alive
    THEN [w |-> add_log_message(w, "player_defeated_cannot_act"),
          ok |-> FALSE, message |-> "player_defeated"]
    ELSE LET r == IF action_type = "move" THEN PlayerMove(w, target_pos)
                  ELSE IF action_type = "ability"
                  THEN PlayerAbility(w, target_pos, ability_to_use)
                  ELSE Rejected(w, "")
         IN  IF r.action_taken
             THEN LET w1 == add_log_message(r.w, r.message)
                      w2 == IF /\ w1.entities[w1.player].ap = 0
                               /\ w1.game_state = "player_turn"
                               /\ w1.entities[w1.player].is_alive
                            THEN end_player_turn(add_log_message(w1, "out_of_ap"))
                            ELSE w1
                  IN  [w |-> w2, ok |-> TRUE, message |-> r.message]
             ELSE [w |-> r.w, ok |-> FALSE, message |-> r.message]

\* handle_player_action: [w, ok, message] - the engine afterwards and the
\* (success, message) pair returned.
handle_player_action(w, action_type, target_pos, ability_to_use) ==
    IF w.player = None \/ get_current_turn_entity(w) # w.player
       \/ w.game_state # "player_turn"
    THEN [w |-> w, ok |-> FALSE, message |-> "not_players_turn"]
    ELSE IF ~w.entities[w.player].is_alive
    THEN [w |-> add_log_message(w, "player_defeated_cannot_act"),
          ok |-> FALSE, message |-> "player_defeated"]
    ELSE LET r == IF action_type = "move" THEN PlayerMove(w, target_pos)
                  ELSE IF action_type = "ability"
                  THEN PlayerAbility(w, target_pos, ability_to_use)
                  ELSE Rejected(w, "")
         IN  IF r.action_taken
             THEN LET w1 == add_log_message(r.w, r.message)
                      w2 == IF /\ w1.entities[w1.player].ap = 0
                               /\ w1.game_state = "player_turn"
                               /\ w1.entities[w1.player].is_alive
                            THEN end_player_turn(add_log_message(w1, "out_of_ap"))
                            ELSE w1
                  IN  [w |-> w2, ok |-> TRUE, message |-> r.message]
             ELSE [w |-> r.w, ok |-> FALSE, message |-> r.message]

-----------------------------------------------------------------------------
(* GameEngine: queries of the user interface *)

\* get_valid_moves(entity): the neighbouring tiles, in the order N, S, W, E,
\* that the entity can step on.
get_valid_moves(w, entity) ==
    IF entity = None \/ w.entities[entity].ap < 1 THEN << >>
    ELSE LET e == w.entities[entity]
             candidates == << <<e.x, e.y - 1>>, <<e.x, e.y + 1>>,
                              <<e.x - 1, e.y>>, <<e.x + 1, e.y>> >>
             is_occupied(tile) ==
                 \E k \in 1..Len(w.entities) :
                     /\ w.entities[k].is_alive
                     /\ w.entities[k].x = tile[1]
                     /\ w.entities[k].y = tile[2]
             Possible(tile) ==
                 /\ is_walkable(tile[1], tile[2])
                 /\ get_height(tile[1], tile[2]) <= MAX_MAP_HEIGHT
                 /\ get_height(tile[1], tile[2]) - get_height(e.x, e.y)
                        <= MAX_CLIMB_HEIGHT_DIFF
                 /\ ~is_occupied(tile)
         IN  SelectSeq(candidates, Possible)

\* get_ability_range_tiles(entity, ability): list(set(in_range_tiles)), a list
\* without duplicates in no particular order, here the set of its tiles.
get_ability_range_tiles(w, entity, ability) ==
    IF entity = None \/ ability = NoAbility THEN {}
    ELSE LET e == w.entities[entity]
         IN  IF e.ap < ability.ap_cost THEN {}
             ELSE IF ability.target_type = "SELF"
             THEN IF ability.effect_radius = 0 THEN {<<e.x, e.y>>}
                  ELSE {tile \in GridTiles :
                            /\ Abs(tile[1] - e.x) <= ability.effect_radius
                            /\ Abs(tile[2] - e.y) <= ability.effect_radius}
             ELSE {tile \in GridTiles :
                       /\ ~(/\ ability.target_type # "TILE"
                            /\ tile = <<e.x, e.y>>
                            /\ ability.effect_radius = 0)
                       /\ manhattan_distance(<<e.x, e.y>>, tile) <= ability.range}

-----------------------------------------------------------------------------
(* The engine surface that abilities.py calls: attributes of the reworked
   Entity, blocking query and pathfinder *)

current_ap(e) == e.ap
is_dead(e) == ~e.is_alive
faction(e) == e.faction
defense(e) == e.defense

\* The first live entity on tile (x, y) other than exclude_entity, or None.
get_blocking_entity_at(w, x, y, exclude_entity) ==
    LET Blocks(i) == /\ i # exclude_entity
                     /\ ~is_dead(w.entities[i])
                     /\ w.entities[i].x = x
                     /\ w.entities[i].y = y
        found == SelectSeq(Indices(Len(w.entities)), Blocks)
    IN  IF found = << >> THEN None ELSE Head(found)

\* The four neighbours of a tile in the order N, S, E, W.
Neighbours(tile) ==
    << <<tile[1], tile[2] - 1>>, <<tile[1], tile[2] + 1>>,
       <<tile[1] + 1, tile[2]>>, <<tile[1] - 1, tile[2]>> >>

\* One step of a path: onto a valid walkable tile that no live entity
\* occupies unless it is the goal, climbing at most MAX_CLIMB_HEIGHT_DIFF.
CanStep(w, from, to, goal) ==
    /\ is_valid(to[1], to[2])
    /\ is_walkable(to[1], to[2])
    /\ (to = goal \/ get_blocking_entity_at(w, to[1], to[2], None) = None)
    /\ get_height(to[1], to[2]) - get_height(from[1], from[2]) <= MAX_CLIMB_HEIGHT_DIFF

\* The search extending the newest path first (depth-first).
RECURSIVE BfsSearch_newest_first(_, _, _, _)
BfsSearch_newest_first(w, queue, visited, goal) ==
    IF queue = << >> THEN << >>
    ELSE LET path == Head(queue)
             tile == path[Len(path)]
             Fresh(to) == to \notin visited /\ CanStep(w, tile, to, goal)
             steps == SelectSeq(Neighbours(tile), Fresh)
             longer == [k \in 1..Len(steps) |-> Append(path, steps[k])]
         IN  IF tile = goal THEN path
             ELSE Once({BfsSearch_newest_first(w, next.queue, next.visited, goal) :
                       next \in {[queue |-> longer \o Tail(queue),
                                  visited |-> visited \cup
                                      {steps[k] : k \in 1..Len(steps)}]}})

\* Breadth-first search: queue holds the paths to extend, oldest first.
RECURSIVE BfsSearch(_, _, _, _)
BfsSearch(w, queue, visited, goal) ==
    IF queue = << >> THEN << >>
    ELSE LET path == Head(queue)
             tile == path[Len(path)]
             Fresh(to) == to \notin visited /\ CanStep(w, tile, to, goal)
             steps == SelectSeq(Neighbours(tile), Fresh)
             longer == [k \in 1..Len(steps) |-> Append(path, steps[k])]
         IN  IF tile = goal THEN path
             ELSE Once({BfsSearch(w, next.queue, next.visited, goal) :
                       next \in {[queue |-> Tail(queue) \o longer,
                                  visited |-> visited \cup
                                      {steps[k] : k \in 1..Len(steps)}]}})

\* find_path: the tiles from start to goal inclusive, << >> when there is none.
find_path(w, start_x, start_y, goal_x, goal_y) ==
    IF <<start_x, start_y>> = <<goal_x, goal_y>> THEN << <<start_x, start_y>> >>
    ELSE IF ~is_valid(goal_x, goal_y) \/ ~is_walkable(goal_x, goal_y) THEN << >>
    ELSE BfsSearch(w, << << <<start_x, start_y>> >> >>, {<<start_x, start_y>>},
                   <<goal_x, goal_y>>)

-----------------------------------------------------------------------------
(* abilities.py: Ability.execute *)

Max(a, b) == IF a >= b THEN a ELSE b

Failed(w, message) == [ok |-> FALSE, w |-> w, message |-> message]
Succeeded(w, message) == [ok |-> TRUE, w |-> w, message |-> message]

\* The movement branch paying the AP before it looks for a blocking entity.
ExecuteMove_paying_first(w, ability, actor, target_pos) ==
    LET a == w.entities[actor]
        path == find_path(w, a.x, a.y, target_pos[1], target_pos[2])
        ap_cost_for_move == Len(path) - 1
        blocking_entity == get_blocking_entity_at(w, target_pos[1], target_pos[2], actor)
        paid == [w EXCEPT !.entities[actor].ap = @ - ap_cost_for_move]
    IN  IF Len(path) <= 1 THEN Failed(w, "no_path")
        ELSE IF current_ap(a) < ap_cost_for_move THEN Failed(w, "not_enough_ap")
        ELSE IF ap_cost_for_move > ability.range THEN Failed(w, "too_far")
        ELSE IF blocking_entity # None THEN Failed(paid, "occupied")
        ELSE Succeeded([paid EXCEPT !.entities[actor].x = target_pos[1],
                                    !.entities[actor].y = target_pos[2]],
                       "moves")

\* The movement branch (self.id_name == "move").
ExecuteMove(w, ability, actor, target_pos) ==
    LET a == w.entities[actor]
        path == find_path(w, a.x, a.y, target_pos[1], target_pos[2])
        ap_cost_for_move == Len(path) - 1
        blocking_entity == get_blocking_entity_at(w, target_pos[1], target_pos[2], actor)
    IN  IF Len(path) <= 1 THEN Failed(w, "no_path")
        ELSE IF current_ap(a) < ap_cost_for_move THEN Failed(w, "not_enough_ap")
        ELSE IF ap_cost_for_move > ability.range THEN Failed(w, "too_far")
        ELSE IF blocking_entity # None THEN Failed(w, "occupied")
        ELSE Succeeded([w EXCEPT !.entities[actor] =
                                     [a EXCEPT !.x = target_pos[1], !.y = target_pos[2],
                                               !.ap = @ - ap_cost_for_move]],
                       "moves")

\* targets_hit of an area ability holding the entity on the target tile only.
TargetsHit_centre_only(w, ability, target_pos) ==
    LET target_entity == get_blocking_entity_at(w, target_pos[1], target_pos[2], None)
    IN  IF target_entity # None THEN <<target_entity>> ELSE << >>

\* targets_hit: the entity on the target tile, or every live entity within
\* effect_radius of it, in the order of engine.entities.
TargetsHit(w, ability, target_pos) ==
    IF ability.effect_radius = 0
    THEN LET target_entity == get_blocking_entity_at(w, target_pos[1], target_pos[2], None)
         IN  IF target_entity # None THEN <<target_entity>> ELSE << >>
    ELSE LET InArea(i) ==
                 /\ ~is_dead(w.entities[i])
                 /\ Abs(w.entities[i].x - target_pos[1])
                        + Abs(w.entities[i].y - target_pos[2]) <= ability.effect_radius
         IN  SelectSeq(Indices(Len(w.entities)), InArea)

\* The damage loop dealing the raw damage_amount whatever the defense.
RECURSIVE ApplyDamage_ignoring_defense(_, _, _, _)
ApplyDamage_ignoring_defense(w, ability, actor, targets_hit) ==
    IF targets_hit = << >> THEN w
    ELSE LET target_entity == Head(targets_hit)
             t == w.entities[target_entity]
             damaged == take_damage(t, ability.damage_amount).e
             w1 == [w EXCEPT !.entities[target_entity] = damaged]
             w2 == IF is_dead(damaged) THEN add_log_message(w1, "defeated_by") ELSE w1
         IN  IF ability.target_type = "ENEMY" /\ faction(t) = faction(w.entities[actor])
             THEN ApplyDamage_ignoring_defense(w, ability, actor, Tail(targets_hit))
             ELSE IF ability.target_type = "ALLY" /\ faction(t) # faction(w.entities[actor])
             THEN ApplyDamage_ignoring_defense(w, ability, actor, Tail(targets_hit))
             ELSE ApplyDamage_ignoring_defense(w2, ability, actor, Tail(targets_hit))

\* The damage loop without the faction tests.
RECURSIVE ApplyDamage_to_any_faction(_, _, _, _)
ApplyDamage_to_any_faction(w, ability, actor, targets_hit) ==
    IF targets_hit = << >> THEN w
    ELSE LET target_entity == Head(targets_hit)
             t == w.entities[target_entity]
             actual_damage == Max(0, ability.damage_amount - defense(t))
             damaged == take_damage(t, actual_damage).e
             w1 == [w EXCEPT !.entities[target_entity] = damaged]
             w2 == IF is_dead(damaged) THEN add_log_message(w1, "defeated_by") ELSE w1
         IN  ApplyDamage_to_any_faction(w2, ability, actor, Tail(targets_hit))

\* The loop "for target_entity in targets_hit" of a damaging ability.
RECURSIVE ApplyDamage(_, _, _, _)
ApplyDamage(w, ability, actor, targets_hit) ==
    IF targets_hit = << >> THEN w
    ELSE LET target_entity == Head(targets_hit)
             t == w.entities[target_entity]
             actual_damage == Max(0, ability.damage_amount - defense(t))
             damaged == take_damage(t, actual_damage).e
             w1 == [w EXCEPT !.entities[target_entity] = damaged]
             w2 == IF is_dead(damaged) THEN add_log_message(w1, "defeated_by") ELSE w1
         IN  IF ability.target_type = "ENEMY" /\ faction(t) = faction(w.entities[actor])
             THEN ApplyDamage(w, ability, actor, Tail(targets_hit))
             ELSE IF ability.target_type = "ALLY" /\ faction(t) # faction(w.entities[actor])
             THEN ApplyDamage(w, ability, actor, Tail(targets_hit))
             ELSE ApplyDamage(w2, ability, actor, Tail(targets_hit))

\* Ability.execute(actor, target_pos, engine): [ok, w, message].
execute(w, ability, actor, target_pos) ==
    IF ability.id_name = "move" THEN ExecuteMove(w, ability, actor, target_pos)
    ELSE LET targets_hit == TargetsHit(w, ability, target_pos)
             needs_entity == ability.target_type \notin {"TILE", "SELF"}
         IN  IF targets_hit = << >> /\ needs_entity
             THEN Failed(w, "no_target")
             ELSE IF ability.damage_amount > 0
             THEN IF targets_hit = << >>
                  THEN Failed(w, "no_discernible_effect")
                  ELSE Succeeded(ApplyDamage(w, ability, actor, targets_hit), "uses_on")
             ELSE Succeeded(w, "uses")

-----------------------------------------------------------------------------
(* ai.py: the behaviour strategies *)

\* Python's None where a decision (ability, target_pos) is expected.
NoAction == [ability |-> NoAbility, target_pos |-> <<-1, -1>>]

\* Python's None where a position (x, y) is expected.
NoPosition == <<-1, -1>>

Min(a, b) == IF a <= b THEN a ELSE b

\* owner.get_ability_by_id_name(id_name): the first ability with that id.
get_ability_by_id_name(e, id_name) ==
    LET found == SelectSeq(e.abilities, LAMBDA ability : ability.id_name = id_name)
    IN  IF found = << >> THEN NoAbility ELSE Head(found)

\* engine.is_target_in_ability_range(owner, ability, target_pos)
is_target_in_ability_range(w, owner, ability, target_pos) ==
    manhattan_distance(<<w.entities[owner].x, w.entities[owner].y>>, target_pos)
        <= ability.range

\* The choice taking the farthest candidate step without the test of the tile.
AggressiveMelee_choose_action_untested_step(w, owner) ==
    IF w.player = None \/ is_dead(w.entities[w.player]) THEN NoAction
    ELSE LET o == w.entities[owner]
             p == w.entities[w.player]
             Usable(ability) ==
                 /\ ability.damage_amount > 0
                 /\ ability.id_name # "move"
                 /\ current_ap(o) >= ability.ap_cost
                 /\ is_target_in_ability_range(w, owner, ability, <<p.x, p.y>>)
             attacks == SelectSeq(o.abilities, Usable)
             move_ability == get_ability_by_id_name(o, "move")
             path == find_path(w, o.x, o.y, p.x, p.y)
             potential_steps == Min(Min(Len(path) - 1, move_ability.range), current_ap(o))
             Free(step_index) ==
                 /\ is_walkable(path[step_index + 1][1], path[step_index + 1][2])
                 /\ get_blocking_entity_at(w, path[step_index + 1][1],
                                           path[step_index + 1][2], owner) = None
             steps == 1..potential_steps
         IN  IF attacks # << >>
             THEN [ability |-> Head(attacks), target_pos |-> <<p.x, p.y>>]
             ELSE IF move_ability # NoAbility /\ current_ap(o) > 0 /\ Len(path) > 1
                     /\ steps # {}
             THEN [ability |-> move_ability,
                   target_pos |-> path[(CHOOSE k \in steps : \A j \in steps : j <= k) + 1]]
             ELSE NoAction

\* AggressiveMelee.choose_action(owner, engine)
AggressiveMelee_choose_action(w, owner) ==
    IF w.player = None \/ is_dead(w.entities[w.player]) THEN NoAction
    ELSE LET o == w.entities[owner]
             p == w.entities[w.player]
             Usable(ability) ==
                 /\ ability.damage_amount > 0
                 /\ ability.id_name # "move"
                 /\ current_ap(o) >= ability.ap_cost
                 /\ is_target_in_ability_range(w, owner, ability, <<p.x, p.y>>)
             attacks == SelectSeq(o.abilities, Usable)
             move_ability == get_ability_by_id_name(o, "move")
             path == find_path(w, o.x, o.y, p.x, p.y)
             potential_steps == Min(Min(Len(path) - 1, move_ability.range), current_ap(o))
             Free(step_index) ==
                 /\ is_walkable(path[step_index + 1][1], path[step_index + 1][2])
                 /\ get_blocking_entity_at(w, path[step_index + 1][1],
                                           path[step_index + 1][2], owner) = None
             steps == {step_index \in 1..potential_steps : Free(step_index)}
         IN  IF attacks # << >>
             THEN [ability |-> Head(attacks), target_pos |-> <<p.x, p.y>>]
             ELSE IF move_ability # NoAbility /\ current_ap(o) > 0 /\ Len(path) > 1
                     /\ steps # {}
             THEN [ability |-> move_ability,
                   target_pos |-> path[(CHOOSE k \in steps : \A j \in steps : j <= k) + 1]]
             ELSE NoAction

\* The damaging abilities of owner, other than the move, that it can pay for
\* and that reach the player, in the order of owner.abilities.
AttacksInRange(w, owner) ==
    LET o == w.entities[owner]
        p == w.entities[w.player]
        Usable(ability) ==
            /\ ability.damage_amount > 0
            /\ ability.id_name # "move"
            /\ current_ap(o) >= ability.ap_cost
            /\ is_target_in_ability_range(w, owner, ability, <<p.x, p.y>>)
    IN  SelectSeq(o.abilities, Usable)

\* The default of Cautious.__init__
PREFERRED_DISTANCE == 3

\* The offsets (dx, dy) in the order of the two nested loops over
\* range(-current_ap, current_ap + 1).
ScanOffsets(ap) ==
    [k \in 1..(2 * ap + 1) * (2 * ap + 1) |->
        <<((k - 1) \div (2 * ap + 1)) - ap, ((k - 1) % (2 * ap + 1)) - ap>>]

\* The scan in which a tile as far as the best one replaces it.
RECURSIVE CautiousScan_last_of_equals(_, _, _, _, _, _)
CautiousScan_last_of_equals(w, owner, offsets, k, best_position, best_distance) ==
    IF k > Len(offsets) THEN best_position
    ELSE LET o == w.entities[owner]
             p == w.entities[w.player]
             dx == offsets[k][1]
             dy == offsets[k][2]
             new_x == o.x + dx
             new_y == o.y + dy
             new_distance == manhattan_distance(<<new_x, new_y>>, <<p.x, p.y>>)
         IN  IF Abs(dx) + Abs(dy) > current_ap(o)
             THEN CautiousScan_last_of_equals(w, owner, offsets, k + 1, best_position, best_distance)
             ELSE IF /\ is_walkable(new_x, new_y)
                     /\ get_blocking_entity_at(w, new_x, new_y, owner) = None
                     /\ new_distance >= best_distance /\ new_distance > manhattan_distance(<<o.x, o.y>>, <<p.x, p.y>>)
             THEN CautiousScan_last_of_equals(w, owner, offsets, k + 1, <<new_x, new_y>>, new_distance)
             ELSE CautiousScan_last_of_equals(w, owner, offsets, k + 1, best_position, best_distance)

\* The two loops of Cautious.choose_action from offset number k on, carrying
\* best_position and best_distance.
RECURSIVE CautiousScan(_, _, _, _, _, _)
CautiousScan(w, owner, offsets, k, best_position, best_distance) ==
    IF k > Len(offsets) THEN best_position
    ELSE LET o == w.entities[owner]
             p == w.entities[w.player]
             dx == offsets[k][1]
             dy == offsets[k][2]
             new_x == o.x + dx
             new_y == o.y + dy
             new_distance == manhattan_distance(<<new_x, new_y>>, <<p.x, p.y>>)
         IN  IF Abs(dx) + Abs(dy) > current_ap(o)
             THEN CautiousScan(w, owner, offsets, k + 1, best_position, best_distance)
             ELSE IF /\ is_walkable(new_x, new_y)
                     /\ get_blocking_entity_at(w, new_x, new_y, owner) = None
                     /\ new_distance > best_distance
             THEN CautiousScan(w, owner, offsets, k + 1, <<new_x, new_y>>, new_distance)
             ELSE CautiousScan(w, owner, offsets, k + 1, best_position, best_distance)

\* Cautious.choose_action(owner, engine) of a behaviour with the given
\* preferred_distance
Cautious_choose_action(w, owner, preferred_distance) ==
    IF w.player = None \/ is_dead(w.entities[w.player]) THEN NoAction
    ELSE LET o == w.entities[owner]
             p == w.entities[w.player]
             distance_to_player == manhattan_distance(<<o.x, o.y>>, <<p.x, p.y>>)
             move_ability == get_ability_by_id_name(o, "move")
             best_position == CautiousScan(w, owner, ScanOffsets(current_ap(o)), 1,
                                           NoPosition, distance_to_player)
             attacks == AttacksInRange(w, owner)
         IN  IF distance_to_player < preferred_distance
             THEN IF move_ability # NoAbility /\ current_ap(o) > 0 /\ best_position # NoPosition
                  THEN [ability |-> move_ability, target_pos |-> best_position]
                  ELSE NoAction
             ELSE IF distance_to_player <= preferred_distance + 1 /\ attacks # << >>
             THEN [ability |-> Head(attacks), target_pos |-> <<p.x, p.y>>]
             ELSE NoAction

\* The default of Defensive.__init__
GUARD_RADIUS == 2

\* The Defensive choice going back to the guard point whatever the radius.
Defensive_choose_action_any_distance(w, owner, guard_position, guard_radius) ==
    IF w.player = None \/ is_dead(w.entities[w.player]) THEN NoAction
    ELSE LET o == w.entities[owner]
             p == w.entities[w.player]
             guard == IF guard_position = NoPosition THEN <<o.x, o.y>> ELSE guard_position
             distance_from_guard_pos == manhattan_distance(<<o.x, o.y>>, guard)
             attacks == AttacksInRange(w, owner)
             move_ability == get_ability_by_id_name(o, "move")
             path == find_path(w, o.x, o.y, guard[1], guard[2])
             max_steps == Min(current_ap(o), Len(path) - 1)
             target_pos == path[Min(max_steps, Len(path) - 1) + 1]
         IN  IF attacks # << >>
             THEN [ability |-> Head(attacks), target_pos |-> <<p.x, p.y>>]
             ELSE IF /\ distance_from_guard_pos > 0
                     /\ move_ability # NoAbility
                     /\ current_ap(o) > 0
                     /\ Len(path) > 1
                     /\ is_walkable(target_pos[1], target_pos[2])
                     /\ get_blocking_entity_at(w, target_pos[1], target_pos[2], owner) = None
             THEN [ability |-> move_ability, target_pos |-> target_pos]
             ELSE NoAction

\* Defensive.choose_action(owner, engine) of a behaviour with the given
\* guard_position (None: the position of owner at this call) and guard_radius
Defensive_choose_action(w, owner, guard_position, guard_radius) ==
    IF w.player = None \/ is_dead(w.entities[w.player]) THEN NoAction
    ELSE LET o == w.entities[owner]
             p == w.entities[w.player]
             guard == IF guard_position = NoPosition THEN <<o.x, o.y>> ELSE guard_position
             distance_from_guard_pos == manhattan_distance(<<o.x, o.y>>, guard)
             attacks == AttacksInRange(w, owner)
             move_ability == get_ability_by_id_name(o, "move")
             path == find_path(w, o.x, o.y, guard[1], guard[2])
             max_steps == Min(current_ap(o), Len(path) - 1)
             target_pos == path[Min(max_steps, Len(path) - 1) + 1]
         IN  IF attacks # << >>
             THEN [ability |-> Head(attacks), target_pos |-> <<p.x, p.y>>]
             ELSE IF /\ distance_from_guard_pos > guard_radius
                     /\ move_ability # NoAbility
                     /\ current_ap(o) > 0
                     /\ Len(path) > 1
                     /\ is_walkable(target_pos[1], target_pos[2])
                     /\ get_blocking_entity_at(w, target_pos[1], target_pos[2], owner) = None
             THEN [ability |-> move_ability, target_pos |-> target_pos]
             ELSE NoAction

-----------------------------------------------------------------------------
(* GameEngine.run_npc_turn of the reworked engine *)

\* The safety bound on the actions of one NPC turn.
MAX_NPC_ACTIONS == 5

\* engine._execute_action(actor, ability, target_pos): the checks that precede
\* Ability.execute, the AP of a successful ability other than the move, and
\* the log.
execute_action(w, actor, ability, target_pos) ==
    LET a == w.entities[actor]
        r == execute(w, ability, actor, target_pos)
        paid == IF ability.id_name = "move" THEN r.w
                ELSE [r.w EXCEPT !.entities[actor].ap = @ - ability.ap_cost]
    IN  IF is_dead(a) THEN Failed(add_log_message(w, "action_failed"), "dead")
        ELSE IF ability.id_name # "move" /\ current_ap(a) < ability.ap_cost
        THEN Failed(add_log_message(w, "action_failed"), "not_enough_ap")
        ELSE IF manhattan_distance(<<a.x, a.y>>, target_pos) > ability.range
        THEN Failed(add_log_message(w, "action_failed"), "out_of_range")
        ELSE IF r.ok THEN Succeeded(add_log_message(paid, "action"), r.message)
        ELSE Failed(add_log_message(r.w, "action_failed"), r.message)

\* The condition of the loop of run_npc_turn.
NpcLoopGoesOn(w, npc, actions_taken) ==
    /\ current_ap(w.entities[npc]) > 0
    /\ actions_taken < MAX_NPC_ACTIONS

\* One pass of the loop: the decision of the behaviour, its execution and the
\* game-over check; go_on is FALSE when the turn ends by waiting or the action
\* failed.
NpcActionTaken(w, npc, decision) ==
    LET r == execute_action(w, npc, decision.ability, decision.target_pos)
    IN  IF decision = NoAction
        THEN [w |-> add_log_message(w, "waits"), go_on |-> FALSE]
        ELSE [w |-> GameOverCheck(r.w), go_on |-> r.ok]

\* The pass of the loop on the decision the behaviour returns in w.
NpcAction(w, npc) ==
    CHOOSE taken \in {NpcActionTaken(w, npc, decision) :
                          decision \in {AggressiveMelee_choose_action(w, npc)}} : TRUE

\* The loop of run_npc_turn run to its end without suspension.
RECURSIVE NpcLoop(_, _, _)
NpcLoop(w, npc, actions_taken) ==
    IF NpcLoopGoesOn(w, npc, actions_taken)
    THEN LET r == NpcAction(w, npc)
         IN  IF r.go_on THEN NpcLoop(r.w, npc, actions_taken + 1) ELSE r.w
    ELSE w

\* run_npc_turn(npc) when nothing else runs before it returns.
run_npc_turn(w, npc) == next_turn(NpcLoop(w, npc, 0))

-----------------------------------------------------------------------------
(* abilities.py: load_abilities and the registry it fills *)

\* int(text) of the texts found in the ability files; "two" raises ValueError.
Numerals == {"0", "1", "2", "3"}
int(text) == CASE text = "0" -> 0 [] text = "1" -> 1 [] text = "2" -> 2 [] text = "3" -> 3

\* The table without entries.
EmptyTable == [ability_id \in {} |-> NoAbility]

\* What load_all_abilities_from_categorized_json can return: the ability
\* files as the editor saved them at different times, none at all when the
\* directory is missing, and one with an entry that int() rejects.
AbilityFiles ==
    { [ move |-> [ap_cost |-> "1", range |-> "1"],
        shot |-> [ap_cost |-> "1", range |-> "2"] ],
      [ move |-> [ap_cost |-> "1", range |-> "2"],
        shot |-> [ap_cost |-> "2", range |-> "2"],
        bite |-> [ap_cost |-> "1", range |-> "1"] ],
      [ move |-> [ap_cost |-> "1", range |-> "3"],
        shot |-> [ap_cost |-> "two", range |-> "2"] ],
      EmptyTable }

\* The loop of load_abilities: one Ability for every entry whose numbers
\* int() accepts, the others skipped.
BuildRegistry(raw_abilities_data) ==
    LET Accepted(ability_id) ==
            /\ raw_abilities_data[ability_id].ap_cost \in Numerals
            /\ raw_abilities_data[ability_id].range \in Numerals
    IN  [ ability_id \in {i \in DOMAIN raw_abilities_data : Accepted(i)} |->
            [ id_name |-> ability_id,
              ap_cost |-> int(raw_abilities_data[ability_id].ap_cost),
              range |-> int(raw_abilities_data[ability_id].range) ] ]

\* dict.get
registry_get(table, ability_id_name) ==
    IF ability_id_name \in DOMAIN table THEN table[ability_id_name] ELSE NoAbility

\* dict.update
registry_update(table, new_registry) ==
    [ ability_id \in DOMAIN table \cup DOMAIN new_registry |->
        IF ability_id \in DOMAIN new_registry THEN new_registry[ability_id]
        ELSE table[ability_id] ]

\* No lookup made yet.
NothingSeen == [ability_id_name |-> "None", ability |-> NoAbility, during |-> "idle"]

\* The registry holding `table` while no load_abilities is running.
CatalogAtRest(table) ==
    [ table |-> table, pc |-> "idle", new_registry |-> EmptyTable,
      at_entry |-> table, seen |-> NothingSeen ]

\* The registry the engine's matches are played with.
CatalogAtImport == CatalogAtRest(ABILITIES_REGISTRY)

-----------------------------------------------------------------------------
(* Game.update awaiting run_npc_turn *)

\* No call of run_npc_turn is under way.
NoTask == << >>

-----------------------------------------------------------------------------
(* The state machine *)

\* The engine object held in the variables.
World ==
    [ entities |-> entities, player |-> player, turn_order |-> turn_order,
      current_turn_index |-> current_turn_index, game_state |-> game_state,
      game_log |-> game_log ]

\* The variables take the fields of engine w.
Becomes(w) ==
    /\ entities' = w.entities
    /\ player' = w.player
    /\ turn_order' = w.turn_order
    /\ current_turn_index' = w.current_turn_index
    /\ game_state' = w.game_state
    /\ game_log' = w.game_log

\* Game.__init__: nothing loaded, no engine yet (its fields read as a fresh one).
Init ==
    /\ entities = NewEngine.entities
    /\ player = NewEngine.player
    /\ turn_order = NewEngine.turn_order
    /\ current_turn_index = NewEngine.current_turn_index
    /\ game_state = NewEngine.game_state
    /\ game_log = NewEngine.game_log
    /\ host_game_state = "loading"
    /\ initialized = FALSE
    /\ last_call = [op |-> "none", ok |-> TRUE]
    /\ catalog = CatalogAtImport
    /\ npc_tasks = NoTask
    /\ pending_events = << >>

\* Game.engine is not None
EngineExists == host_game_state \notin {"loading", "load_error"}

\* The explored part of a match.
WithinBounds == Len(game_log) < MaxLogged

\* Game.load_game_state for a map whose entities_on_map list is `info`.
LoadGameState(info) ==
    /\ host_game_state = "loading"
    /\ ~initialized
    /\ LET w1 == initialize_entities_from_map_data(NewEngine, info)
       IN  IF w1.player = None
           THEN /\ Becomes(add_log_message(w1, "GAME"))
                /\ initialized' = FALSE
                /\ host_game_state' = "critical_error_no_player"
           ELSE LET w2 == start_game(w1)
                IN  /\ Becomes(add_log_message(w2, "GAME"))
                    /\ initialized' = TRUE
                    /\ host_game_state' = w2.game_state
    /\ last_call' = [op |-> "load_game_state", ok |-> TRUE]
    /\ UNCHANGED <<catalog, npc_tasks, pending_events>>

\* Game.load_game_state for a map file that cannot be read.
LoadMissingMap ==
    /\ host_game_state = "loading"
    /\ ~initialized
    /\ host_game_state' = "load_error"
    /\ last_call' = [op |-> "load_game_state", ok |-> FALSE]
    /\ UNCHANGED <<entities, player, turn_order, current_turn_index, game_state,
                   game_log, initialized, catalog, npc_tasks, pending_events>>

\* Game.handle_input: a click on the End-round button (Game._end_player_turn).
EndRoundClick ==
    /\ initialized
    /\ host_game_state = "player_turn"
    /\ WithinBounds
    /\ LET w1 == next_turn(World)
       IN  /\ Becomes(add_log_message(w1, "GAME"))
           /\ host_game_state' = w1.game_state
    /\ last_call' = [op |-> "end_round_click", ok |-> TRUE]
    /\ UNCHANGED <<initialized, catalog, npc_tasks, pending_events>>

\* GameEngine.handle_player_action(action_type, target_pos, ability_to_use)
HandlePlayerAction(action_type, target_pos, ability_to_use) ==
    /\ EngineExists
    /\ WithinBounds
    /\ LET r == handle_player_action(World, action_type, target_pos, ability_to_use)
       IN  /\ Becomes(r.w)
           /\ last_call' = [op |-> "handle_player_action", ok |-> r.ok]
    /\ UNCHANGED <<host_game_state, initialized, catalog, npc_tasks, pending_events>>

\* GameEngine.end_player_turn()
EndPlayerTurn ==
    /\ EngineExists
    /\ WithinBounds
    /\ Becomes(end_player_turn(World))
    /\ last_call' = [op |-> "end_player_turn", ok |-> TRUE]
    /\ UNCHANGED <<host_game_state, initialized, catalog, npc_tasks, pending_events>>

\* GameEngine.update()
Update ==
    /\ EngineExists
    /\ WithinBounds
    /\ Becomes(update(World))
    /\ last_call' = [op |-> "update", ok |-> TRUE]
    /\ UNCHANGED <<host_game_state, initialized, catalog, npc_tasks, pending_events>>

\* What a caller can pass to handle_player_action.
ActionTypes == {"move", "ability", "wait"}
TargetTiles == GridTiles \cup {<<-1, 0>>}
PlayerAbilities ==
    IF player = None THEN {NoAbility}
    ELSE {entities[player].abilities[k] : k \in 1..Len(entities[player].abilities)}
             \cup {NoAbility}

Next ==
    \/ \E info \in MapEntityLists : LoadGameState(info)
    \/ LoadMissingMap
    \/ EndRoundClick
    \/ \E action_type \in ActionTypes, target_pos \in TargetTiles,
          ability_to_use \in PlayerAbilities :
            HandlePlayerAction(action_type, target_pos, ability_to_use)
    \/ EndPlayerTurn
    \/ Update

Spec == Init /\ [][Next]_vars

-----------------------------------------------------------------------------
(* Direct calls of Ability.execute and Entity.move on a prepared battlefield *)

\* Ability records as abilities.load_abilities builds them from the JSON data.
Stride == [id_name |-> "move", name |-> "Move", ap_cost |-> 1, range |-> 2,
           damage_amount |-> 0, target_type |-> "TILE", effect_radius |-> 0]
Blast == [id_name |-> "blast", name |-> "Blast", ap_cost |-> 2, range |-> 2,
          damage_amount |-> 3, target_type |-> "ENEMY", effect_radius |-> 0]
Jab == [id_name |-> "jab", name |-> "Jab", ap_cost |-> 1, range |-> 1,
        damage_amount |-> 1, target_type |-> "ANY_ENTITY", effect_radius |-> 0]
Fireball == [id_name |-> "fireball", name |-> "Fireball", ap_cost |-> 2, range |-> 2,
             damage_amount |-> 2, target_type |-> "ENEMY", effect_radius |-> 1]
Quake == [id_name |-> "quake", name |-> "Quake", ap_cost |-> 1, range |-> 1,
          damage_amount |-> 1, target_type |-> "TILE", effect_radius |-> 1]
Rally == [id_name |-> "rally", name |-> "Rally", ap_cost |-> 1, range |-> 1,
          damage_amount |-> 1, target_type |-> "ALLY", effect_radius |-> 1]
Smite == [id_name |-> "smite", name |-> "Smite", ap_cost |-> 1, range |-> 2,
          damage_amount |-> 1, target_type |-> "ALLY", effect_radius |-> 0]
Beacon == [id_name |-> "beacon", name |-> "Beacon", ap_cost |-> 1, range |-> 1,
           damage_amount |-> 0, target_type |-> "TILE", effect_radius |-> 1]

\* An entity of the reworked Entity class: the fields of Entity plus defense
\* and faction.
CombatEntity(x, y, hp, ap, defense_value, faction_tag, behavior, abilities) ==
    [Entity(x, y, hp, hp, ap, ap, << >>, behavior, "unit") EXCEPT !.abilities = abilities]
        @@ [defense |-> defense_value, faction |-> faction_tag]

\* The battlefields: the entity lists from which the calls start.
Battlefields ==
    { << CombatEntity(0, 0, 3, 2, 0, "player", "player_controlled",
                       <<Stride, Blast, Jab, Fireball>>),
         CombatEntity(2, 0, 3, 2, 1, "enemy", "move_towards_player", <<Stride, Jab, Quake>>),
         CombatEntity(0, 1, 2, 1, 0, "player", "move_towards_player", <<Rally>>) >>,
      << CombatEntity(0, 2, 1, 1, 0, "player", "player_controlled",
                       <<Stride, Blast, Smite, Beacon>>),
         CombatEntity(2, 2, 2, 2, 3, "enemy", "move_towards_player", <<Stride, Jab>>) >> }

\* A match in the player's turn with the given entities, the first the player.
InitExec ==
    /\ entities \in Battlefields
    /\ player = 1
    /\ turn_order = Indices(Len(entities))
    /\ current_turn_index = 0
    /\ game_state = "player_turn"
    /\ game_log = << >>
    /\ host_game_state = "player_turn"
    /\ initialized = TRUE
    /\ last_call = [op |-> "none", ok |-> TRUE]
    /\ catalog = CatalogAtImport
    /\ npc_tasks = NoTask
    /\ pending_events = << >>

AbilitiesOf(i) == {entities[i].abilities[k] : k \in 1..Len(entities[i].abilities)}

\* ability.execute(actor, target_pos, engine)
Execute(actor, ability, target_pos) ==
    /\ LET r == execute(World, ability, actor, target_pos)
       IN  /\ Becomes(r.w)
           /\ last_call' = [op |-> "execute", ok |-> r.ok]
    /\ UNCHANGED <<host_game_state, initialized, catalog, npc_tasks, pending_events>>

\* entity.move(dx, dy, game_map), called for the player as handle_player_action
\* calls it.
MoveEntity(i, dx, dy) ==
    /\ LET r == move(entities[i], dx, dy)
       IN  /\ entities' = [entities EXCEPT ![i] = r.e]
           /\ last_call' = [op |-> "move", ok |-> r.ok]
    /\ UNCHANGED <<player, turn_order, current_turn_index, game_state, game_log,
                   host_game_state, initialized, catalog, npc_tasks, pending_events>>

Deltas == {-1, 0, 1}

NextExec ==
    \/ \E actor \in 1..Len(entities) :
           \E ability \in AbilitiesOf(actor), target_pos \in GridTiles :
               Execute(actor, ability, target_pos)
    \/ \E dx \in Deltas, dy \in Deltas : MoveEntity(player, dx, dy)

SpecExec == InitExec /\ [][NextExec]_vars

-----------------------------------------------------------------------------
(* Messages of the host filling the log of an engine *)

\* The host messages are explored while the log holds fewer than MaxAppended
\* of the texts of HostTexts.
MaxAppended == 7

\* The log after eighteen messages of the host, each with a text of its own.
LogAtStart ==
    << "note01", "note02", "note03", "note04", "note05", "note06",
       "note07", "note08", "note09", "note10", "note11", "note12",
       "note13", "note14", "note15", "note16", "note17", "note18" >>

\* The texts of the further messages.
HostTexts == {"GAME", "GAME_again"}

\* The engine of a map without entities, its log holding LogAtStart.
InitLog ==
    /\ entities = NewEngine.entities
    /\ player = NewEngine.player
    /\ turn_order = NewEngine.turn_order
    /\ current_turn_index = NewEngine.current_turn_index
    /\ game_state = NewEngine.game_state
    /\ game_log = LogAtStart
    /\ host_game_state = "critical_error_no_player"
    /\ initialized = FALSE
    /\ last_call = [op |-> "set_message", ok |-> TRUE]
    /\ catalog = CatalogAtImport
    /\ npc_tasks = NoTask
    /\ pending_events = << >>

NumberAppended ==
    Len(SelectSeq(game_log, LAMBDA message : message \in HostTexts))

\* Game.set_message(text): self.engine.add_log_message(f"GAME: {text}")
SetMessage(text) ==
    /\ NumberAppended < MaxAppended
    /\ Becomes(add_log_message(World, text))
    /\ last_call' = [op |-> "set_message", ok |-> TRUE]
    /\ UNCHANGED <<host_game_state, initialized, catalog, npc_tasks, pending_events>>

NextLog == \E text \in HostTexts : SetMessage(text)

SpecLog == InitLog /\ [][NextLog]_vars

-----------------------------------------------------------------------------
(* Reloads of the ability registry and the lookups made meanwhile *)

\* The module has been imported: load_abilities has run once on one of the
\* versions of the files, and no map is loaded.
InitReload ==
    /\ entities = NewEngine.entities
    /\ player = NewEngine.player
    /\ turn_order = NewEngine.turn_order
    /\ current_turn_index = NewEngine.current_turn_index
    /\ game_state = NewEngine.game_state
    /\ game_log = NewEngine.game_log
    /\ host_game_state = "loading"
    /\ initialized = FALSE
    /\ last_call = [op |-> "load_abilities", ok |-> TRUE]
    /\ catalog \in {CatalogAtRest(BuildRegistry(files)) : files \in AbilityFiles}
    /\ npc_tasks = NoTask
    /\ pending_events = << >>

EngineUntouched ==
    UNCHANGED <<entities, player, turn_order, current_turn_index, game_state,
                game_log, host_game_state, initialized, npc_tasks, pending_events>>

\* load_abilities up to its first write of the registry: the files are read
\* and, unless there are none, new_registry is built.
ReloadBegin(raw_abilities_data) ==
    /\ catalog.pc = "idle"
    /\ catalog' = [catalog EXCEPT
                     !.pc = IF DOMAIN raw_abilities_data = {} THEN "clear_and_return"
                            ELSE "clear",
                     !.new_registry = BuildRegistry(raw_abilities_data),
                     !.at_entry = catalog.table,
                     !.seen = NothingSeen]
    /\ last_call' = [op |-> "load_abilities", ok |-> TRUE]
    /\ EngineUntouched

\* ABILITIES_REGISTRY.clear()
ReloadClear ==
    /\ catalog.pc \in {"clear_and_return", "clear"}
    /\ catalog' = [catalog EXCEPT
                     !.table = EmptyTable,
                     !.pc = IF catalog.pc = "clear" THEN "update" ELSE "idle"]
    /\ UNCHANGED last_call
    /\ EngineUntouched

\* ABILITIES_REGISTRY.update(new_registry)
ReloadUpdate ==
    /\ catalog.pc = "update"
    /\ catalog' = [catalog EXCEPT
                     !.table = registry_update(catalog.table, catalog.new_registry),
                     !.pc = "idle"]
    /\ UNCHANGED last_call
    /\ EngineUntouched

\* get_ability(ability_id_name), called at any point of a reload.
Lookup(ability_id_name) ==
    /\ catalog' = [catalog EXCEPT
                     !.seen = [ability_id_name |-> ability_id_name,
                               ability |-> registry_get(catalog.table, ability_id_name),
                               during |-> catalog.pc]]
    /\ last_call' = [op |-> "get_ability", ok |-> ability_id_name \in DOMAIN catalog.table]
    /\ EngineUntouched

\* The ids asked for; no version of the files defines "dash".
LookupIds == {"move", "shot", "bite", "dash"}

NextReload ==
    \/ \E raw_abilities_data \in AbilityFiles : ReloadBegin(raw_abilities_data)
    \/ ReloadClear
    \/ ReloadUpdate
    \/ \E ability_id_name \in LookupIds : Lookup(ability_id_name)

SpecReload == InitReload /\ [][NextReload]_vars

-----------------------------------------------------------------------------
(* The frames of the main loop around suspended NPC turns *)

\* Input is explored while fewer than MaxPending events wait to be fetched.
MaxPending == 2

\* The entity lists of the matches: the player first, then the NPCs.
Skirmishes ==
    { << CombatEntity(0, 0, 2, 2, 0, "player", "player_controlled", <<Stride>>),
         CombatEntity(2, 0, 2, 2, 0, "enemy", "aggressive_melee", <<Stride, Jab>>),
         CombatEntity(2, 1, 1, 1, 0, "enemy", "aggressive_melee", <<Stride, Jab>>) >>,
      << CombatEntity(0, 1, 1, 1, 0, "player", "player_controlled", <<Stride>>),
         CombatEntity(2, 2, 2, 2, 0, "enemy", "aggressive_melee", <<Stride, Jab>>) >> }

\* A match just started: the player's turn, the host agreeing with the engine.
InitTurn ==
    /\ entities \in Skirmishes
    /\ player = 1
    /\ turn_order = Indices(Len(entities))
    /\ current_turn_index = 0
    /\ game_state = "player_turn"
    /\ game_log = << >>
    /\ host_game_state = "player_turn"
    /\ initialized = TRUE
    /\ last_call = [op |-> "none", ok |-> TRUE]
    /\ catalog = CatalogAtImport
    /\ npc_tasks = NoTask
    /\ pending_events = << >>

\* The events of the host: a click on the End-round button and a movement of
\* the mouse.
HostEvents == {"end_round", "motion"}

\* Game.handle_input(event) on host phase `host` and engine w.
handle_input(host, w, event) ==
    IF event = "end_round" /\ host = "player_turn"
    THEN LET w1 == next_turn(w)
         IN  [host |-> w1.game_state, w |-> add_log_message(w1, "GAME")]
    ELSE [host |-> host, w |-> w]

\* for event_g in events: game.handle_input(event_g)
RECURSIVE HandleEvents(_, _, _)
HandleEvents(host, w, events) ==
    IF events = << >> THEN [host |-> host, w |-> w]
    ELSE LET h == handle_input(host, w, Head(events))
         IN  HandleEvents(h.host, h.w, Tail(events))

\* The main loop is at the top of a frame when it fetches the events and calls
\* Game.update with await, but never while a call of update has not returned.
MainLoopStartsFrame_without_await(tasks) == Len(tasks) < 2

MainLoopStartsFrame(tasks) == tasks = << >>

\* An event of the host joins the queue of the window.
EventArrives(event) ==
    /\ Len(pending_events) < MaxPending
    /\ pending_events' = Append(pending_events, event)
    /\ UNCHANGED <<entities, player, turn_order, current_turn_index, game_state,
                   game_log, host_game_state, initialized, last_call, catalog,
                   npc_tasks>>

\* One frame up to the first suspension: the fetched events are handled, then
\* Game.update mirrors a finished match and, in a phase other than the
\* player's on which host and engine agree, calls run_npc_turn for the live
\* current entity.
Frame ==
    /\ MainLoopStartsFrame(npc_tasks)
    /\ LET h == HandleEvents(host_game_state, World, pending_events)
           mirrored == IF h.w.game_state \in {"game_over_player_win",
                                               "game_over_player_lose"}
                       THEN h.w.game_state ELSE h.host
           current_npc == get_current_turn_entity(h.w)
           starts == /\ mirrored # "player_turn"
                     /\ h.w.game_state = mirrored
                     /\ current_npc # None
                     /\ ~is_dead(h.w.entities[current_npc])
       IN  /\ Becomes(h.w)
           /\ host_game_state' = mirrored
           /\ npc_tasks' = IF starts
                           THEN Append(npc_tasks,
                                       [npc |-> current_npc, actions_taken |-> 0,
                                        go_on |-> TRUE, at_start |-> h.w])
                           ELSE npc_tasks
           /\ last_call' = [op |-> "frame", ok |-> starts]
    /\ pending_events' = << >>
    /\ UNCHANGED <<initialized, catalog>>

\* The sequence without its k-th item.
Without(seq, k) == SubSeq(seq, 1, k - 1) \o SubSeq(seq, k + 1, Len(seq))

\* A suspended call of run_npc_turn goes on to its next suspension: one more
\* action of the NPC, or the end of the loop, next_turn and the return to
\* Game.update, which copies the phase.
Resume(k) ==
    /\ k \in 1..Len(npc_tasks)
    /\ LET task == npc_tasks[k]
           r == NpcAction(World, task.npc)
           ended == next_turn(World)
       IN  IF task.go_on /\ NpcLoopGoesOn(World, task.npc, task.actions_taken)
           THEN /\ Becomes(r.w)
                /\ npc_tasks' = [npc_tasks EXCEPT ![k] =
                                    [task EXCEPT !.actions_taken = @ + 1,
                                                 !.go_on = r.go_on]]
                /\ last_call' = [op |-> "npc_action", ok |-> r.go_on]
                /\ UNCHANGED host_game_state
           ELSE /\ Becomes(ended)
                /\ npc_tasks' = Without(npc_tasks, k)
                /\ last_call' = [op |-> "run_npc_turn", ok |-> TRUE,
                                 npc |-> task.npc,
                                 actions_taken |-> task.actions_taken,
                                 at_start |-> task.at_start]
                /\ host_game_state' = ended.game_state
    /\ UNCHANGED <<initialized, catalog, pending_events>>

NextTurn ==
    \/ \E event \in HostEvents : EventArrives(event)
    \/ Frame
    \/ \E k \in 1..Len(npc_tasks) : Resume(k)

SpecTurn == InitTurn /\ [][NextTurn]_vars

-----------------------------------------------------------------------------
(* The engine's update called frame after frame *)

\* GameEngine.update() as the loop of the host repeats it, however long the
\* log has grown.
UpdateCall ==
    /\ EngineExists
    /\ \E w \in {update(World)} : Becomes(w)
    /\ last_call' = [op |-> "update", ok |-> TRUE]
    /\ UNCHANGED <<host_game_state, initialized, catalog, npc_tasks, pending_events>>

\* A click of the player on the map, which Game.handle_input passes on while
\* its own phase is player_turn: a move, or the selected ability.
MapClick(action_type, target_pos, ability_to_use) ==
    /\ host_game_state = "player_turn"
    /\ HandlePlayerAction(action_type, target_pos, ability_to_use)

NextFrames ==
    \/ \E info \in MapEntityLists : LoadGameState(info)
    \/ EndRoundClick
    \/ \E target_pos \in GridTiles : MapClick("move", target_pos, NoAbility)
    \/ \E target_pos \in GridTiles, ability_to_use \in PlayerAbilities \ {NoAbility} :
           MapClick("ability", target_pos, ability_to_use)
    \/ UpdateCall

\* A match played through the host, the update of every frame never left out
\* for good.
SpecFrames == Init /\ [][NextFrames]_vars /\ WF_vars(UpdateCall)

-----------------------------------------------------------------------------
(* The behaviours asked for a decision, and the decision executed *)

WalkableTiles == {tile \in GridTiles : is_walkable(tile[1], tile[2])}

\* The NPC that decides: hp 2, the abilities in the order of its definition.
Sentry(tile, ap, behavior) ==
    CombatEntity(tile[1], tile[2], 2, ap, 0, "enemy", behavior, <<Jab, Stride, Blast>>)

\* A second NPC of the Aggressive-melee kind without a ranged attack.
Brawler(tile) ==
    CombatEntity(tile[1], tile[2], 2, 2, 0, "enemy", "aggressive_melee", <<Stride, Jab>>)

\* The tiles on which the second NPC may stand; NoPosition: there is none.
BystanderTiles == {NoPosition, <<1, 0>>, <<2, 1>>}

BehaviorNames == {"aggressive_melee", "cautious", "defensive"}

\* The entity lists: the player, the deciding NPC with 0 to 3 AP and, on some,
\* a second NPC.
Standoffs ==
    { << CombatEntity(p[1], p[2], 3, 2, 0, "player", "player_controlled", <<Stride>>),
         Sentry(n, ap, behavior) >>
        \o (IF third = NoPosition THEN << >> ELSE << Brawler(third) >>) :
      <<p, n, third>> \in {t \in WalkableTiles \X WalkableTiles \X BystanderTiles :
                              t[1] # t[2] /\ t[3] \notin {t[1], t[2]}},
      ap \in 0..3, behavior \in BehaviorNames }

InitAi ==
    /\ entities \in Standoffs
    /\ player = 1
    /\ turn_order = Indices(Len(entities))
    /\ current_turn_index = 1
    /\ game_state = "npc_turn"
    /\ game_log = << >>
    /\ host_game_state = "npc_turn"
    /\ initialized = TRUE
    /\ last_call = [op |-> "none", ok |-> TRUE]
    /\ catalog = CatalogAtImport
    /\ npc_tasks = NoTask
    /\ pending_events = << >>

\* The arguments a behaviour object was constructed with.
DefaultArguments ==
    [preferred_distance |-> PREFERRED_DISTANCE, guard_position |-> NoPosition,
     guard_radius |-> GUARD_RADIUS]

GuardPoints == {NoPosition, <<0, 0>>, <<2, 0>>, <<2, 2>>}

\* create_behavior(behavior_name, **kwargs): the objects a name can give.
BehaviorArguments(behavior_name) ==
    CASE behavior_name = "cautious" ->
             {[DefaultArguments EXCEPT !.preferred_distance = d] : d \in {2, PREFERRED_DISTANCE}}
      [] behavior_name = "defensive" ->
             {[DefaultArguments EXCEPT !.guard_position = g, !.guard_radius = r] :
                  g \in GuardPoints, r \in {1, GUARD_RADIUS}}
      [] OTHER -> {DefaultArguments}

\* behavior.choose_action(owner, engine) of the object create_behavior makes
\* for the behaviour name of owner.
choose_action(w, owner, arguments) ==
    CASE w.entities[owner].behavior = "cautious" ->
             Cautious_choose_action(w, owner, arguments.preferred_distance)
      [] w.entities[owner].behavior = "defensive" ->
             Defensive_choose_action(w, owner, arguments.guard_position,
                                     arguments.guard_radius)
      [] OTHER -> AggressiveMelee_choose_action(w, owner)

\* The behaviour of a live NPC is asked for its decision.
ChooseAction(owner, arguments) ==
    /\ owner # player
    /\ ~is_dead(entities[owner])
    /\ \E decision \in {choose_action(World, owner, arguments)} :
           last_call' = [op |-> "choose_action", ok |-> decision # NoAction,
                         owner |-> owner, arguments |-> arguments,
                         decision |-> decision]
    /\ UNCHANGED <<entities, player, turn_order, current_turn_index, game_state,
                   game_log, host_game_state, initialized, catalog, npc_tasks,
                   pending_events>>

\* ability.execute(owner, target_pos, engine) on the decision just returned.
ExecuteDecision ==
    /\ last_call.op = "choose_action"
    /\ last_call.ok
    /\ \E r \in {execute(World, last_call.decision.ability, last_call.owner,
                         last_call.decision.target_pos)} :
           /\ Becomes(r.w)
           /\ last_call' = [last_call EXCEPT !.op = "execute", !.ok = r.ok]
    /\ UNCHANGED <<host_game_state, initialized, catalog, npc_tasks, pending_events>>

NextAi ==
    \/ \E owner \in 1..Len(entities) :
           \E arguments \in BehaviorArguments(entities[owner].behavior) :
               ChooseAction(owner, arguments)
    \/ ExecuteDecision

SpecAi == InitAi /\ [][NextAi]_vars

-----------------------------------------------------------------------------
(* The host between the player's clicks and the NPC turns it awaits *)

\* Game.handle_input for a click: handled at the top of a frame, on the End
\* round button or on a tile of the map (a move, or the selected ability).
HostClick ==
    /\ MainLoopStartsFrame(npc_tasks)
    /\ \/ EndRoundClick
       \/ \E target_pos \in GridTiles : MapClick("move", target_pos, NoAbility)
       \/ \E target_pos \in GridTiles, ability_to_use \in PlayerAbilities \ {NoAbility} :
              MapClick("ability", target_pos, ability_to_use)

ResumeSome == \E k \in 1..Len(npc_tasks) : Resume(k)

NextHost ==
    \/ HostClick
    \/ Frame
    \/ ResumeSome

\* The main loop runs frame after frame, and a suspended NPC turn is resumed.
SpecHost ==
    InitTurn /\ [][NextHost]_vars /\ WF_vars(Frame) /\ WF_vars(ResumeSome)

-----------------------------------------------------------------------------
(* Vocabulary of the properties *)

GameOverPhases == {"game_over_player_win", "game_over_player_lose"}
TurnPhases == {"player_turn", "npc_turn"}

CurrentEntity == get_current_turn_entity(World)
EntityIds == 1..Len(entities)

IsAlive(i) == i \in EntityIds /\ entities[i].is_alive
PlayerIsDead == player # None /\ ~entities[player].is_alive
NoHostileAlive == ~AnyEnemyAlive(World)

\* Number of entries of `log` equal to `message`.
RECURSIVE Count(_, _)
Count(log, message) ==
    IF log = << >> THEN 0
    ELSE (IF Head(log) = message THEN 1 ELSE 0) + Count(Tail(log), message)

\* The messages a step appended: the log afterwards without its old prefix
\* (no eviction happens below MAX_LOG_MESSAGES entries).
Appended == SubSeq(game_log', Len(game_log) + 1, Len(game_log'))

-----------------------------------------------------------------------------
(* C1 *)

TerminalStepKeepsMatch ==
    game_state \in GameOverPhases =>
        /\ game_state' = game_state
        /\ current_turn_index' = current_turn_index
        /\ \A i \in EntityIds : entities'[i].ap <= entities[i].ap

\* C1: once the phase is game_over_player_win or game_over_player_lose, no
\* later call changes the phase, advances the turn index or regenerates
\* (raises) any entity's AP.
C1_TerminalPhaseIsFinal == [][TerminalStepKeepsMatch]_vars

-----------------------------------------------------------------------------
(* C2 *)

CurrentIsLivePlayer ==
    CurrentEntity # None /\ CurrentEntity = player /\ IsAlive(CurrentEntity)
CurrentIsLiveNpc ==
    CurrentEntity # None /\ CurrentEntity # player /\ IsAlive(CurrentEntity)

\* C2 as stated: in every reachable state the phase is player_turn exactly
\* when the current entity is the live player, and npc_turn exactly when the
\* current index points to a live non-player entity.
C2_PhaseIffCurrentEntity ==
    /\ game_state = "player_turn" <=> CurrentIsLivePlayer
    /\ game_state = "npc_turn" <=> CurrentIsLiveNpc

\* C2 as amended: the phase player_turn implies that the current entity is the
\* live player and the phase npc_turn that it is a live non-player entity (the
\* converse fails in the game-over phases, where the index still points to a
\* live entity).
C2_TurnPhaseImpliesCurrentEntity ==
    /\ game_state = "player_turn" => CurrentIsLivePlayer
    /\ game_state = "npc_turn" => CurrentIsLiveNpc

\* An NPC has the turn after a dead entity was dropped from the turn order.
C2_Witness_NpcTurnAfterKill ==
    /\ game_state = "npc_turn"
    /\ CurrentIsLiveNpc
    /\ \E i \in EntityIds : ~entities[i].is_alive
    /\ Len(turn_order) < Len(entities)

-----------------------------------------------------------------------------
(* C3 *)

\* update() is about to run the behaviour of the current NPC.
NpcBehaviourRuns ==
    /\ game_state = "npc_turn"
    /\ CurrentIsLiveNpc

GameOverDetected ==
    /\ PlayerIsDead => game_state = "game_over_player_lose"
    /\ (PlayerAlive(World) /\ NoHostileAlive) => game_state = "game_over_player_win"

ActionThenGameOverCheck ==
    ( \/ last_call'.op = "handle_player_action" /\ last_call'.ok
      \/ last_call'.op = "update" /\ NpcBehaviourRuns )
    => GameOverDetected'

\* C3: after every player action and after every NPC action, a dead player
\* means phase game_over_player_lose, and a live player without a live
\* hostile entity means phase game_over_player_win.
C3_GameOverCheckedAfterEveryAction == [][ActionThenGameOverCheck]_vars

-----------------------------------------------------------------------------
(* C4 *)

\* C4: over a whole match the defeat message and the victory message are each
\* logged at most once (the game-over check is idempotent).
C4_GameOverLoggedOnce ==
    /\ Count(game_log, "defeat") <= 1
    /\ Count(game_log, "victory") <= 1

-----------------------------------------------------------------------------
(* C5 *)

RejectedCallChangesNothing ==
    ( /\ last_call'.op = "handle_player_action"
      /\ (game_state # "player_turn" \/ CurrentEntity # player) )
    => /\ last_call'.ok = FALSE
       /\ UNCHANGED <<entities, turn_order, current_turn_index, game_state>>

\* C5: handle_player_action called while the phase is not player_turn or the
\* current-turn entity is not the player returns failure and leaves every
\* entity's position, HP and AP, the turn order, the turn index and the phase
\* unchanged.
C5_WrongTurnActionRejected == [][RejectedCallChangesNothing]_vars

\* A call made during an NPC's turn was refused.
C5_Witness_RefusedInNpcTurn ==
    /\ last_call = [op |-> "handle_player_action", ok |-> FALSE]
    /\ game_state = "npc_turn"
    /\ CurrentIsLiveNpc

-----------------------------------------------------------------------------
(* C6 *)

\* The guards of handle_player_action pass: the player may act.
PlayerMayAct ==
    /\ player # None
    /\ CurrentEntity = player
    /\ game_state = "player_turn"
    /\ entities[player].is_alive

\* The requested action validated and carried out, before the end of the
\* call decides whether the turn is over.
ActionOutcome(action_type, target_pos, ability_to_use) ==
    IF action_type = "move" THEN PlayerMove(World, target_pos)
    ELSE IF action_type = "ability" THEN PlayerAbility(World, target_pos, ability_to_use)
    ELSE Rejected(World, "")

LeavesPlayerWithoutAp(r) == r.action_taken /\ r.w.entities[player].ap = 0

\* What a call that turned engine w1 into engine w2 appended to the log (no
\* eviction happens below MAX_LOG_MESSAGES entries).
LoggedBy(w1, w2) == SubSeq(w2.game_log, Len(w1.game_log) + 1, Len(w2.game_log))

\* next_turn ran once between w1 and w2 and the next live entity has the turn.
TurnEndedOnce(w1, w2) ==
    LET current_entity == get_current_turn_entity(w2)
    IN  /\ Count(LoggedBy(w1, w2), "turn") = 1
        /\ w2.current_turn_index = (w1.current_turn_index + 1) % Len(w2.turn_order)
        /\ current_entity # None
        /\ w2.entities[current_entity].is_alive
        /\ w2.game_state = IF current_entity = w2.player THEN "player_turn" ELSE "npc_turn"

TurnGoesOn(w1, w2) ==
    /\ w2.current_turn_index = w1.current_turn_index
    /\ w2.game_state = w1.game_state
    /\ Count(LoggedBy(w1, w2), "turn") = 0

-----------------------------------------------------------------------------
(* C7 *)

\* The engines on which the code of the state at hand calls next_turn: the
\* engine itself (end-round click, end_player_turn, update) and the engine
\* after the behaviour of the current NPC (update).
NextTurnCalledOn ==
    {World} \cup (IF NpcBehaviourRuns
                  THEN {run_npc_behavior(World, CurrentEntity)} ELSE {})

HoldsLiveEntity(w) ==
    \E k \in 1..Len(w.turn_order) : w.entities[w.turn_order[k]].is_alive

NextTurnPostcondition(w) ==
    LET current_entity == get_current_turn_entity(w)
    IN  /\ \A k \in 1..Len(w.turn_order) : w.entities[w.turn_order[k]].is_alive
        /\ 0 <= w.current_turn_index
        /\ w.current_turn_index < Len(w.turn_order)
        /\ current_entity # None
        /\ w.entities[current_entity].is_alive
        /\ w.entities[current_entity].ap = w.entities[current_entity].max_ap
        /\ w.game_state = IF current_entity = w.player THEN "player_turn" ELSE "npc_turn"

\* C7: after next_turn on a turn order that still holds a live entity, the
\* order holds no dead entity, the index lies inside the order, the current
\* entity is alive with AP equal to its max_ap, and the phase is player_turn
\* if that entity is the player and npc_turn otherwise.
C7_NextTurnPostcondition ==
    \A w \in NextTurnCalledOn :
        HoldsLiveEntity(w) => NextTurnPostcondition(next_turn(w))

\* end_player_turn ran next_turn, which dropped a dead entity and gave the
\* turn to an NPC that had spent AP before.
C7_Witness_TurnAfterKill ==
    /\ last_call.op = "end_player_turn"
    /\ Len(turn_order) < Len(entities)
    /\ Count(game_log, "npc_moved") >= 1
    /\ NextTurnPostcondition(World)
    /\ game_state = "npc_turn"

-----------------------------------------------------------------------------
(* C8 *)

DeadEntityGetsNoTurn ==
    /\ \A i \in EntityIds : ~entities[i].is_alive => entities'[i] = entities[i]
    /\ (game_state' \in TurnPhases /\ CurrentEntity' # None)
           => entities'[CurrentEntity'].is_alive
    /\ (game_state = "player_turn" /\ AnyEnemyAlive(World) /\ ~AnyEnemyAlive(World)')
           => /\ game_state' = "game_over_player_win"
              /\ Count(Appended, "turn") = 0

\* C8: a dead entity is never given a turn - no step changes the record of a
\* dead entity (no behaviour, no AP regeneration), the current entity of a
\* player_turn or npc_turn phase is alive, and the step of the player's turn
\* that kills the last NPCs sets game_over_player_win with no turn started.
C8_DeadEntityGetsNoTurn == [][DeadEntityGetsNoTurn]_vars

\* The player killed both NPCs within one turn and won.
C8_Witness_BothNpcsKilled ==
    /\ last_call = [op |-> "handle_player_action", ok |-> TRUE]
    /\ game_state = "game_over_player_win"
    /\ Len(entities) = 3
    /\ \A i \in EntityIds : i # player => ~entities[i].is_alive
    /\ Count(game_log, "turn") = 1

-----------------------------------------------------------------------------
(* C9 *)

MatchJustSetUp == last_call = [op |-> "load_game_state", ok |-> TRUE]

\* C9: after match setup and start_game with at least one live entity, the
\* turn order holds every live entity exactly once with the player at index
\* 0, the current index is 0, the entity at index 0 has full AP, and the
\* phase is player_turn if that entity is the player and npc_turn otherwise.
C9_StartGamePostcondition ==
    (MatchJustSetUp /\ \E i \in EntityIds : entities[i].is_alive)
    => /\ \A i \in EntityIds :
              Cardinality({k \in 1..Len(turn_order) : turn_order[k] = i})
                  = IF entities[i].is_alive THEN 1 ELSE 0
       /\ \A k \in 1..Len(turn_order) : turn_order[k] \in EntityIds
       /\ turn_order[1] = player
       /\ current_turn_index = 0
       /\ entities[turn_order[1]].ap = entities[turn_order[1]].max_ap
       /\ game_state = IF turn_order[1] = player THEN "player_turn" ELSE "npc_turn"

\* A match was set up from a map that places the player after an NPC.
C9_Witness_PlayerPlacedSecond ==
    /\ MatchJustSetUp
    /\ player = 2
    /\ turn_order = <<2, 1>>
    /\ game_state = "player_turn"

-----------------------------------------------------------------------------
(* C10 *)

NoPlayerPlaced ==
    \A i \in EntityIds :
        entities[i].behavior # "player_controlled" /\ entities[i].entity_id # "player_char"

\* C10: a match set up without a placed player entity, or without any
\* entity, is in a cannot-start state - no entity stands in as the player,
\* the phase is neither a turn phase nor a win or loss, and no turn was
\* ever started.
C10_NoPlayerCannotStart ==
    (EngineExists /\ NoPlayerPlaced)
    => /\ player = None
       /\ game_state \notin TurnPhases \cup GameOverPhases
       /\ Count(game_log, "turn") = 0

-----------------------------------------------------------------------------
(* C13 *)

Position(e) == <<e.x, e.y>>

\* C13: an ability of any target kind used on a tile farther from the actor
\* than ability.range is refused - the call reports failure, no entity is
\* damaged and no AP is spent.
C13_OutOfRangeRefused ==
    PlayerMayAct =>
        \A target_pos \in GridTiles, ability_to_use \in PlayerAbilities \ {NoAbility} :
            manhattan_distance(Position(entities[player]), target_pos) > ability_to_use.range
            => LET r == handle_player_action(World, "ability", target_pos, ability_to_use)
               IN  /\ ~r.ok
                   /\ r.w.entities = entities

-----------------------------------------------------------------------------
(* C15 *)

\* C15: no two live entities stand on the same tile (the maps place them on
\* distinct tiles and no successful move ends on an occupied tile).
C15_OneLiveEntityPerTile ==
    \A i, j \in EntityIds :
        (i # j /\ entities[i].is_alive /\ entities[j].is_alive)
        => Position(entities[i]) # Position(entities[j])

-----------------------------------------------------------------------------
(* C16 *)

\* C16: from match setup onward every entity stands on a tile that is inside
\* the grid and walkable.
C16_PositionsWalkable ==
    \A i \in EntityIds :
        /\ is_valid(entities[i].x, entities[i].y)
        /\ is_walkable(entities[i].x, entities[i].y)

-----------------------------------------------------------------------------
(* C19 *)

-----------------------------------------------------------------------------
(* C20 *)

ApRisesOnlyAtTurnStart ==
    \A i \in EntityIds :
        entities'[i].ap > entities[i].ap
        => /\ i = CurrentEntity'
           /\ entities'[i].ap = entities'[i].max_ap
           /\ Count(Appended, "turn") >= 1

\* C20: the AP of an entity rises only in a step in which the turn engine
\* starts a turn and makes that entity the current one (its AP is then
\* max_ap); every other step leaves each AP unchanged or lowers it.
C20_ApRisesOnlyAtTurnStart == [][ApRisesOnlyAtTurnStart]_vars

\* The player ran out of AP, the NPCs had their turns and the player's turn
\* started again with full AP.
C20_Witness_PlayerRefilled ==
    /\ last_call.op = "update"
    /\ game_state = "player_turn"
    /\ Count(game_log, "out_of_ap") >= 1
    /\ entities[player].ap = entities[player].max_ap

-----------------------------------------------------------------------------
(* C14 *)

\* C14: a move of the player to the last tile of a shortest path of L tiles
\* (L - 1 steps) either succeeds, deducts exactly L - 1 AP and leaves the
\* player on the target, or - when L - 1 exceeds the player's AP - is refused
\* and changes no entity.
C14_MoveCostsPathLength ==
    PlayerMayAct =>
        \A target_pos \in GridTiles :
            LET actor == entities[player]
                path == find_path(World, actor.x, actor.y, target_pos[1], target_pos[2])
                steps == Len(path) - 1
                r == ActionOutcome("move", target_pos, NoAbility)
            IN  steps >= 1 =>
                    IF steps <= actor.ap
                    THEN /\ r.action_taken
                         /\ Position(r.w.entities[player]) = target_pos
                         /\ r.w.entities[player].ap = actor.ap - steps
                    ELSE /\ ~r.action_taken
                         /\ r.w.entities = entities

-----------------------------------------------------------------------------
(* C12 *)

\* C12: Ability.execute refuses a non-move ability whose ap_cost exceeds the
\* actor's AP - the call reports failure and no HP or AP changes.
C12_UnaffordableAbilityRefused ==
    \A actor \in EntityIds :
        \A ability \in AbilitiesOf(actor), target_pos \in GridTiles :
            (ability.id_name # "move" /\ ability.ap_cost > entities[actor].ap)
            => LET r == execute(World, ability, actor, target_pos)
               IN  /\ ~r.ok
                   /\ r.w.entities = entities

-----------------------------------------------------------------------------
(* C17 *)

\* The map as data: the symbol and the height of a tile of the grid.
TileSymbol(tile) == Tiles[tile[2] + 1][tile[1] + 1]
TileHeight(tile) == Heightmap[tile[2] + 1][tile[1] + 1]

\* C17: Entity.move succeeds and puts the entity on the destination exactly
\* when the destination is a walkable tile of the grid, its height is at most
\* the maximum map height and it lies at most the maximum climb above the
\* current tile (a descent of any size is allowed); otherwise the call
\* reports failure and leaves the entity as it was.
C17_MoveContract ==
    \A i \in EntityIds :
        \A dx \in Deltas, dy \in Deltas :
            LET e == entities[i]
                dest == <<e.x + dx, e.y + dy>>
                allowed == /\ dest \in GridTiles
                           /\ TileSymbol(dest) # "#"
                           /\ TileHeight(dest) <= MAX_MAP_HEIGHT
                           /\ TileHeight(dest) <= TileHeight(Position(e)) + MAX_CLIMB_HEIGHT_DIFF
                r == move(e, dx, dy)
            IN  /\ r.ok <=> allowed
                /\ r.ok => r.e = [e EXCEPT !.x = dest[1], !.y = dest[2]]
                /\ ~r.ok => r.e = e

\* The player of the second battlefield has stepped down from height 5 to
\* height 0.
C17_Witness_SteppedDown ==
    /\ last_call = [op |-> "move", ok |-> TRUE]
    /\ Len(entities) = 2
    /\ Position(entities[player]) = <<0, 1>>

-----------------------------------------------------------------------------
(* C18 *)

\* HP left of hp after raw damage d against defense f.
HpAfter(hp, d, f) ==
    LET dealt == IF d - f > 0 THEN d - f ELSE 0
    IN  IF hp - dealt > 0 THEN hp - dealt ELSE 0

\* The entity an ability aimed at target_pos hits: the first live entity on
\* that tile, None when there is none.
TargetOn(target_pos) ==
    LET here == {i \in EntityIds : entities[i].is_alive /\ Position(entities[i]) = target_pos}
    IN  IF here = {} THEN None ELSE CHOOSE i \in here : \A j \in here : i <= j

\* An ENEMY ability spares the actor's own faction, an ALLY ability every
\* other faction.
Spared(ability, actor, i) ==
    \/ ability.target_type = "ENEMY" /\ entities[i].faction = entities[actor].faction
    \/ ability.target_type = "ALLY" /\ entities[i].faction # entities[actor].faction

\* The entities an ability aimed at target_pos reaches: the entity on the
\* tile, or every live entity within effect_radius of it.
Aimed(ability, target_pos) ==
    IF ability.effect_radius = 0 THEN {TargetOn(target_pos)} \ {None}
    ELSE {i \in EntityIds :
              /\ entities[i].is_alive
              /\ manhattan_distance(Position(entities[i]), target_pos)
                     <= ability.effect_radius}

-----------------------------------------------------------------------------
(* C11 *)

\* What a failed action has to leave alone: positions, HP, AP and death
\* flags of all entities, and the turn order.
SameBattlefield(ents, order) == ents = entities /\ order = turn_order

\* C11: every action that reports failure - handle_player_action,
\* Ability.execute, Entity.attack, Entity.move - leaves positions, HP, AP,
\* death flags and the turn order exactly as they were.
C11_FailureChangesNothing ==
    /\ \A action_type \in ActionTypes, target_pos \in TargetTiles,
          ability_to_use \in PlayerAbilities :
           LET r == handle_player_action(World, action_type, target_pos, ability_to_use)
           IN  ~r.ok => SameBattlefield(r.w.entities, r.w.turn_order)
    /\ \A actor \in EntityIds :
           \A ability \in AbilitiesOf(actor), target_pos \in TargetTiles :
               LET r == execute(World, ability, actor, target_pos)
               IN  ~r.ok => SameBattlefield(r.w.entities, r.w.turn_order)
    /\ \A self \in EntityIds, target \in EntityIds :
           \A ability \in AbilitiesOf(self) \cup {NoAbility} :
               ~attack(entities, self, target, ability).ok
               => attack(entities, self, target, ability).ents = entities
    /\ \A i \in EntityIds :
           \A dx \in Deltas, dy \in Deltas :
               ~move(entities[i], dx, dy).ok => move(entities[i], dx, dy).e = entities[i]

\* A call of Ability.execute has just been refused after an entity was
\* defeated earlier in the match.
C11_Witness_RefusedAfterDefeat ==
    /\ last_call = [op |-> "execute", ok |-> FALSE]
    /\ \E i \in EntityIds : ~entities[i].is_alive

-----------------------------------------------------------------------------
(* C21 *)

ElementsOf(seq) == {seq[k] : k \in 1..Len(seq)}

\* What holds of a dead entity i whatever the turn order lists: it is still
\* in the entities list with 0 HP, no tile query returns it, its tile is
\* offered as a move to a neighbour that could step there were the tile
\* empty, it does not have the turn, and next_turn drops it from the order.
DeadEntityIsOutOfPlay(i) ==
    LET dead == entities[i]
        tile == Position(dead)
        OthersHere == {k \in EntityIds : k # i /\ entities[k].is_alive
                                            /\ Position(entities[k]) = tile}
    IN  /\ i \in 1..Len(entities)
        /\ dead.hp = 0
        /\ \A t \in GridTiles : i \notin ElementsOf(get_entities_at(World, t[1], t[2]))
        /\ \A k \in EntityIds :
               (/\ entities[k].is_alive
                /\ entities[k].ap >= 1
                /\ manhattan_distance(Position(entities[k]), tile) = 1
                /\ OthersHere = {}
                /\ move(entities[k], dead.x - entities[k].x, dead.y - entities[k].y).ok)
               => tile \in ElementsOf(get_valid_moves(World, k))
        /\ game_state \in TurnPhases => CurrentEntity # i
        /\ i \notin ElementsOf(next_turn(World).turn_order)

-----------------------------------------------------------------------------
(* C22 *)

\* Amounts of damage and healing passed to take_damage.
DamageAmounts == -1..3

DeathIsPermanent ==
    \A i \in EntityIds :
        ~entities[i].is_alive
        => /\ \A amount \in DamageAmounts :
                  take_damage(entities[i], amount) = [defeated |-> FALSE, e |-> entities[i]]
           /\ \A self \in EntityIds :
                  \A ability \in AbilitiesOf(self) :
                      attack(entities, self, i, ability).ents[i] = entities[i]
           /\ i \in 1..Len(entities')
           /\ ~entities'[i].is_alive
           /\ entities'[i].hp = entities[i].hp
           /\ entities[i].hp = 0

\* C22: death is permanent - take_damage on a dead entity changes nothing,
\* Entity.attack on a dead target leaves it as it is, and no step makes a
\* dead entity alive again or changes its HP from 0.
C22_DeathIsPermanent == [][DeathIsPermanent]_vars

\* A dead NPC has been aimed at once more by the player and the attack was
\* refused.
C22_Witness_DeadAimedAt ==
    /\ last_call = [op |-> "handle_player_action", ok |-> FALSE]
    /\ game_state = "player_turn"
    /\ player # None
    /\ \E i \in EntityIds :
           /\ ~entities[i].is_alive
           /\ \E ability \in AbilitiesOf(player) :
                  attack(entities, player, i, ability).msg = "already_defeated"

-----------------------------------------------------------------------------
(* C23 *)

AreaAbility(ability) == ability.id_name # "move" /\ ability.effect_radius > 0

-----------------------------------------------------------------------------
(* C24 *)

\* C24: a successful use of a damaging area ability lowers the HP of exactly
\* the live entities within effect_radius (Manhattan) of the target tile that
\* pass the faction filter, each by max(0, damage - defense); every other
\* entity, in particular every entity outside the radius, keeps its HP.
C24_AreaOfEffect ==
    \A actor \in EntityIds :
        \A ability \in AbilitiesOf(actor), target_pos \in GridTiles :
            (AreaAbility(ability) /\ ability.damage_amount > 0)
            => LET r == execute(World, ability, actor, target_pos)
               IN  r.ok =>
                   \A i \in EntityIds :
                       LET before == entities[i]
                           after == r.w.entities[i]
                           within == manhattan_distance(Position(before), target_pos)
                                         <= ability.effect_radius
                       IN  IF before.is_alive /\ within /\ ~Spared(ability, actor, i)
                           THEN after.hp = HpAfter(before.hp, ability.damage_amount,
                                                   before.defense)
                           ELSE after = before

\* On the first battlefield a Quake (raw damage 1, radius 1) has hit the two
\* entities of defense 0 standing next to each other, and the third entity,
\* more than two tiles from one of them, has all its HP.
C24_Witness_QuakeHitsTwo ==
    /\ last_call = [op |-> "execute", ok |-> TRUE]
    /\ Len(entities) = 3
    /\ entities[1].hp = entities[1].max_hp - 1
    /\ entities[3].hp = entities[3].max_hp - 1
    /\ entities[2].hp = entities[2].max_hp
    /\ manhattan_distance(Position(entities[1]), Position(entities[3])) = 1
    /\ manhattan_distance(Position(entities[2]), Position(entities[3])) > 2

-----------------------------------------------------------------------------
(* C25 *)

\* C25: a use of an area ability of kind ENEMY, ALLY or ANY_ENTITY that
\* affects no eligible entity - none within the radius, or all of them
\* removed by the faction filter - reports failure, and a use of an area
\* ability of kind TILE or SELF reports success even when it hits no entity.
C25_AreaWithoutEligibleTarget ==
    \A actor \in EntityIds :
        \A ability \in AbilitiesOf(actor), target_pos \in GridTiles :
            AreaAbility(ability)
            => LET r == execute(World, ability, actor, target_pos)
                   eligible == {i \in Aimed(ability, target_pos) : ~Spared(ability, actor, i)}
               IN  IF ability.target_type \in {"TILE", "SELF"}
                   THEN r.ok
                   ELSE eligible = {} => ~r.ok

-----------------------------------------------------------------------------
(* C26 *)

\* C26: the log never holds more than MAX_LOG_MESSAGES messages; appending
\* to a log that is not full adds the message at the end, and appending to a
\* full log removes exactly the oldest message, keeps the others in their
\* order and puts the new message last.
C26_LogBounded ==
    /\ Len(game_log) <= MAX_LOG_MESSAGES
    /\ \A message \in HostTexts :
           LET after == add_log_message(World, message).game_log
           IN  IF Len(game_log) < MAX_LOG_MESSAGES
               THEN after = game_log \o <<message>>
               ELSE /\ Len(after) = MAX_LOG_MESSAGES
                    /\ after[MAX_LOG_MESSAGES] = message
                    /\ \A k \in 1..(MAX_LOG_MESSAGES - 1) : after[k] = game_log[k + 1]

\* Five messages were appended to the eighteen: the log is full, the three
\* oldest are gone and the fourth is now the first.
C26_Witness_OldestEvicted ==
    /\ Len(game_log) = MAX_LOG_MESSAGES
    /\ NumberAppended = 5
    /\ game_log[1] = LogAtStart[4]
    /\ game_log[MAX_LOG_MESSAGES] \in HostTexts

-----------------------------------------------------------------------------
(* C27 *)

\* A step a path may take towards goal: to a neighbouring walkable tile of
\* the grid, at most MAX_CLIMB_HEIGHT_DIFF higher, on which no live entity
\* stands unless it is the goal.
StepAllowed(from, to, goal) ==
    /\ to \in GridTiles
    /\ manhattan_distance(from, to) = 1
    /\ TileSymbol(to) # "#"
    /\ TileHeight(to) - TileHeight(from) <= MAX_CLIMB_HEIGHT_DIFF
    /\ \/ to = goal
       \/ \A i \in EntityIds : entities[i].is_alive => Position(entities[i]) # to

\* The tiles one allowed step away from a tile.
StepsFrom(from, goal) ==
    {to \in { <<from[1], from[2] - 1>>, <<from[1], from[2] + 1>>,
              <<from[1] - 1, from[2]>>, <<from[1] + 1, from[2]>> } :
         StepAllowed(from, to, goal)}

\* The least number of steps of a path to goal from a tile of `frontier`,
\* the tiles that k steps reach and fewer do not; -1 without such a path.
RECURSIVE StepsToGoal(_, _, _, _)
StepsToGoal(frontier, seen, goal, k) ==
    IF goal \in frontier THEN k
    ELSE IF frontier = {} THEN -1
    ELSE LET next == UNION {StepsFrom(from, goal) : from \in frontier} \ seen
         IN  StepsToGoal(next, seen \cup next, goal, k + 1)

\* The least number of steps of a path from start to goal, -1 without a path.
ShortestSteps(start, goal) == StepsToGoal({start}, {start}, goal, 0)

IsPath(path, start, goal) ==
    /\ Len(path) >= 1
    /\ path[1] = start
    /\ path[Len(path)] = goal
    /\ \A k \in 1..(Len(path) - 1) : StepAllowed(path[k], path[k + 1], goal)

\* C27: from the tile of any entity, find_path returns a path to the goal
\* with the least number of tiles among the paths of 4-directional steps
\* over walkable tiles of the grid that never climb more than
\* MAX_CLIMB_HEIGHT_DIFF and never enter the tile of a live entity other
\* than the goal; find_path(s, s) is the path of the single tile s; there is
\* no path when the goal is outside the grid, not walkable or unreachable.
C27_ShortestPath ==
    \A i \in EntityIds :
        \A goal \in TargetTiles :
            LET start == Position(entities[i])
                path == find_path(World, start[1], start[2], goal[1], goal[2])
            IN  IF goal = start THEN path = <<start>>
                ELSE IF goal \notin GridTiles THEN path = << >>
                ELSE IF TileSymbol(goal) = "#" \/ ShortestSteps(start, goal) = -1
                THEN path = << >>
                ELSE /\ IsPath(path, start, goal)
                     /\ Len(path) = ShortestSteps(start, goal) + 1

\* On the second battlefield the enemy has moved to (2,1): from the player
\* on (0,2) two routes lead round the wall to that tile, one of five steps
\* through (0,0) and the one of three steps through (2,2) that find_path
\* returns.
C27_Witness_TwoRoutes ==
    /\ last_call = [op |-> "execute", ok |-> TRUE]
    /\ Len(entities) = 2
    /\ Position(entities[1]) = <<0, 2>>
    /\ Position(entities[2]) = <<2, 1>>
    /\ IsPath(<< <<0, 2>>, <<0, 1>>, <<0, 0>>, <<1, 0>>, <<2, 0>>, <<2, 1>> >>,
              <<0, 2>>, <<2, 1>>)
    /\ find_path(World, 0, 2, 2, 1) = << <<0, 2>>, <<1, 2>>, <<2, 2>>, <<2, 1>> >>

-----------------------------------------------------------------------------
(* C28 *)

\* The tiles of the grid within ability.range (Manhattan) of entity i,
\* without the tile of i itself when the ability is single-target: not of
\* kind TILE and of effect_radius 0.
TilesInRange(i, ability) ==
    {tile \in GridTiles :
         /\ manhattan_distance(Position(entities[i]), tile) <= ability.range
         /\ (ability.target_type # "TILE" /\ ability.effect_radius = 0)
                => tile # Position(entities[i])}

\* C28: for an ability whose kind is not SELF the valid-target set of an
\* actor is exactly TilesInRange, whatever stands on the tiles.
C28_ValidTargetsAreTilesInRange ==
    \A i \in EntityIds :
        \A ability \in AbilitiesOf(i) :
            ability.target_type # "SELF"
            => get_ability_range_tiles(World, i, ability) = TilesInRange(i, ability)

-----------------------------------------------------------------------------
(* C29 *)

-----------------------------------------------------------------------------
(* C30 *)

\* What the claim compares of an engine: the entities with their positions,
\* HP and AP, the turn order with its index, and the phase.
Outcome(w) ==
    [ entities |-> w.entities, turn_order |-> w.turn_order,
      current_turn_index |-> w.current_turn_index, game_state |-> w.game_state ]

\* C30: when a call of run_npc_turn that was suspended between the NPC's
\* actions returns, whatever events of the host arrived meanwhile, the engine
\* holds the positions, HP, AP, turn order and phase that the same turn run
\* without suspension leaves from the state in which it was called.
C30_YieldsChangeNothing ==
    last_call.op = "run_npc_turn" =>
        Outcome(World) = Outcome(run_npc_turn(last_call.at_start, last_call.npc))

\* An NPC turn of two actions has returned, it has moved the NPC and hurt the
\* player, and input that arrived while it was suspended is still waiting.
C30_Witness_TurnOfTwoActions ==
    /\ last_call.op = "run_npc_turn"
    /\ last_call.actions_taken = 2
    /\ pending_events # << >>
    /\ entities[player].hp < last_call.at_start.entities[player].hp
    /\ entities[last_call.npc].x # last_call.at_start.entities[last_call.npc].x

-----------------------------------------------------------------------------
(* C31 *)

TurnHanded ==
    game_state \in {"player_turn", "game_over_player_win", "game_over_player_lose"}

Asked(owner, behaviors) ==
    /\ last_call.op = "choose_action"
    /\ last_call.owner = owner
    /\ entities[owner].behavior \in behaviors
    /\ IsAlive(player)

\* owner can pay for no damaging ability that reaches the player.
NoAttackAtHand(owner) ==
    \A k \in 1..Len(entities[owner].abilities) :
        LET ability == entities[owner].abilities[k]
        IN  ~ /\ ability.damage_amount > 0
              /\ ability.id_name # "move"
              /\ entities[owner].ap >= ability.ap_cost
              /\ manhattan_distance(Position(entities[owner]), Position(entities[player]))
                     <= ability.range

\* The tile is walkable and no live entity other than owner stands on it.
FreeFor(owner, tile) ==
    /\ TileSymbol(tile) # "#"
    /\ \A i \in EntityIds \ {owner} : IsAlive(i) => Position(entities[i]) # tile

PathToPlayer(owner) ==
    find_path(World, entities[owner].x, entities[owner].y,
              entities[player].x, entities[player].y)

\* The highest step index the Aggressive-melee NPC may go to.
StepLimit(owner, path) ==
    Min(Min(Len(path) - 1, get_ability_by_id_name(entities[owner], "move").range),
        entities[owner].ap)

\* C32: an Aggressive-melee NPC with no affordable damaging ability in range
\* returns no action, or the move to the step of the path towards the player
\* that is the farthest free one among the steps 1..min(path length - 1, move
\* range, current AP).
C32_AggressiveMove ==
    \A owner \in EntityIds :
        Asked(owner, {"aggressive_melee"}) /\ NoAttackAtHand(owner) =>
            \/ last_call.decision = NoAction
            \/ /\ last_call.decision.ability.id_name = "move"
               /\ LET path == PathToPlayer(owner)
                      limit == StepLimit(owner, path)
                  IN  \E step \in 1..limit :
                          /\ last_call.decision.target_pos = path[step + 1]
                          /\ FreeFor(owner, path[step + 1])
                          /\ \A later \in (step + 1)..limit : ~FreeFor(owner, path[later + 1])

\* The NPC stops one step short because the farthest step it could pay for is
\* the tile of the player.
C32_Witness_StepBeforePlayer ==
    \E owner \in EntityIds :
        /\ Asked(owner, {"aggressive_melee"})
        /\ NoAttackAtHand(owner)
        /\ last_call.decision.ability.id_name = "move"
        /\ LET path == PathToPlayer(owner)
           IN  /\ StepLimit(owner, path) = 2
               /\ path[3] = Position(entities[player])
               /\ last_call.decision.target_pos = path[2]

(* C33 *)

\* The tiles a Cautious NPC looks at: walkable, free of other live entities
\* and within Manhattan distance current AP of its own tile.
CautiousCandidates(owner) ==
    {tile \in GridTiles :
        /\ FreeFor(owner, tile)
        /\ manhattan_distance(Position(entities[owner]), tile) <= entities[owner].ap}

DistanceToPlayer(tile) == manhattan_distance(tile, Position(entities[player]))

\* tile comes before other in the scan: dx ascending, then dy ascending.
ScannedBefore(tile, other) ==
    \/ tile[1] < other[1]
    \/ tile[1] = other[1] /\ tile[2] < other[2]

\* The Cautious NPC owner stands closer to the player than it prefers and is
\* able to move.
TooClose(owner) ==
    /\ Asked(owner, {"cautious"})
    /\ DistanceToPlayer(Position(entities[owner])) < last_call.arguments.preferred_distance
    /\ \E k \in 1..Len(entities[owner].abilities) :
           entities[owner].abilities[k].id_name = "move"
    /\ entities[owner].ap > 0

\* C33: a Cautious NPC that is too close, has a move ability and AP moves to
\* the candidate tile farthest from the player, the first of the scan among
\* equals, and it moves exactly when that tile is strictly farther from the
\* player than its own tile.
C33_CautiousRetreat ==
    \A owner \in EntityIds :
        TooClose(owner) =>
            LET here == Position(entities[owner])
                farther == {tile \in CautiousCandidates(owner) :
                                DistanceToPlayer(tile) > DistanceToPlayer(here)}
                target == last_call.decision.target_pos
            IN  IF farther = {}
                THEN last_call.decision = NoAction
                ELSE /\ last_call.decision.ability.id_name = "move"
                     /\ target \in farther
                     /\ \A tile \in CautiousCandidates(owner) :
                            /\ DistanceToPlayer(tile) <= DistanceToPlayer(target)
                            /\ DistanceToPlayer(tile) = DistanceToPlayer(target) /\ tile # target
                                   => ScannedBefore(target, tile)

\* Two candidate tiles are equally far from the player and the NPC moves to the
\* one scanned first.
C33_Witness_TieBrokenByScan ==
    \E owner \in EntityIds :
        /\ TooClose(owner)
        /\ last_call.decision.ability.id_name = "move"
        /\ \E tile \in CautiousCandidates(owner) :
               /\ tile # last_call.decision.target_pos
               /\ DistanceToPlayer(tile) = DistanceToPlayer(last_call.decision.target_pos)

(* C34 *)

\* The guard point of the behaviour object asked: the tile of the NPC when the
\* object was made without one.
GuardPoint(owner) ==
    IF last_call.arguments.guard_position = NoPosition
    THEN Position(entities[owner])
    ELSE last_call.arguments.guard_position

PathToGuardPoint(owner) ==
    find_path(World, entities[owner].x, entities[owner].y,
              GuardPoint(owner)[1], GuardPoint(owner)[2])

\* The Defensive NPC owner has been asked and has no attack at hand.
OnGuard(owner) == Asked(owner, {"defensive"}) /\ NoAttackAtHand(owner)

OutsideRadius(owner) ==
    manhattan_distance(Position(entities[owner]), GuardPoint(owner))
        > last_call.arguments.guard_radius

\* C34 as stated: outside the guard radius the move a Defensive NPC returns
\* goes exactly one step along the path to the guard point; within the radius
\* it returns no action.
C34_DefensiveOneStep ==
    \A owner \in EntityIds :
        OnGuard(owner) =>
            IF OutsideRadius(owner)
            THEN \/ last_call.decision = NoAction
                 \/ /\ last_call.decision.ability.id_name = "move"
                    /\ Len(PathToGuardPoint(owner)) > 1
                    /\ last_call.decision.target_pos = PathToGuardPoint(owner)[2]
            ELSE last_call.decision = NoAction

\* C34: outside the guard radius the move a Defensive NPC returns goes
\* min(current AP, path length - 1) steps along the path to the guard point,
\* to a tile that is walkable and free; within the radius it returns no action.
C34_DefensiveReturn ==
    \A owner \in EntityIds :
        OnGuard(owner) =>
            IF OutsideRadius(owner)
            THEN \/ last_call.decision = NoAction
                 \/ LET path == PathToGuardPoint(owner)
                        steps == Min(entities[owner].ap, Len(path) - 1)
                    IN  /\ last_call.decision.ability.id_name = "move"
                        /\ steps >= 1
                        /\ last_call.decision.target_pos = path[steps + 1]
                        /\ FreeFor(owner, path[steps + 1])
            ELSE last_call.decision = NoAction

\* A Defensive NPC with AP for more than one step goes two or more steps
\* towards its guard point.
C34_Witness_SeveralSteps ==
    \E owner \in EntityIds :
        /\ OnGuard(owner)
        /\ OutsideRadius(owner)
        /\ last_call.decision.ability.id_name = "move"
        /\ manhattan_distance(Position(entities[owner]), last_call.decision.target_pos) >= 2

(* C35 *)

C36_EndRoundOnlyInPlayerTurn ==
    [][last_call'.op = "end_round_click" => game_state = "player_turn"]_vars

(* C37 *)

\* C37: whenever the engine is in phase npc_turn, the update of the host
\* eventually calls run_npc_turn, with no input of the player needed.
C37_NpcTurnIsRun == (game_state = "npc_turn") ~> (npc_tasks # NoTask)

(* C38 *)

\* The first entity after position i (0-based) of the circular order that is
\* alive in ents; the entity at i itself when no other is.
FirstLiveAfter(order, i, ents) ==
    LET n == Len(order)
        At(k) == order[((i + k) % n) + 1]
        live == {k \in 1..n : ents[At(k)].is_alive}
    IN  At(CHOOSE k \in live : \A j \in live : k <= j)

\* next_turn has run in the step: it announced the turn of an entity.
TurnAnnounced ==
    /\ last_call'.op # "load_game_state"
    /\ Count(Appended, "turn") >= 1

TurnPassesToSuccessor ==
    (TurnAnnounced /\ CurrentEntity # None) =>
        CurrentEntity' = FirstLiveAfter(turn_order, current_turn_index, entities')

\* C38: the entity that receives the next turn is the first live entity that
\* follows the previous current entity in the circular turn order.
C38_TurnPassesToSuccessor == [][TurnPassesToSuccessor]_vars

(* C39 *)

\* C39: in the player's turn the move action to a tile succeeds exactly when
\* get_valid_moves(player) reports the tile.
C39_ValidMovesAreTheMoves ==
    PlayerMayAct =>
        \A tile \in TargetTiles :
            handle_player_action(World, "move", tile, NoAbility).ok
                <=> tile \in ElementsOf(get_valid_moves(World, player))

(* C40 *)

\* C40: Ability.execute succeeds on every decision a behaviour returns, in the
\* state in which the behaviour chose it.
C40_DecisionsExecute == last_call.op = "execute" => last_call.ok

=============================================================================
